---- MODULE Spec2Model ----
(***************************************************************************)
(* sbomlyze: identity, drift classification, differ, dependency-graph      *)
(* reachability diff, policy evaluation and the exit status of a two-file  *)
(* run.                                                                    *)
(*                                                                         *)
(* Go strings are sequences of one-character strings, so that trimming,    *)
(* splitting, prefix tests and byte-wise ordering are computed and not     *)
(* assumed.  A nil pointer is the empty sequence, a non-nil pointer to x   *)
(* is <<x>>.  A Go map is a function whose DOMAIN is the key set.          *)
(***************************************************************************)
EXTENDS Integers, Sequences, FiniteSets, TLC

VARIABLES
    pc,          \* position of main ("failed": os.Exit(1) after an error
                 \* message, "exited": its normal end) or of a function harness
    strict,      \* parseOpts.Strict
    file1,       \* what ParseFile yields for opts.Files[0]: [ok, comps]
    file2,       \* what ParseFile yields for opts.Files[1]
    pol,         \* main's pol: <<>> until a policy is loaded, then <<policy>>
    comps1,      \* main's comps1
    comps2,      \* main's comps2
    warnings,    \* parseOpts.Warnings
    result,      \* main's result (DiffResult)
    violations,  \* main's violations
    stdout,      \* <<>> until the output switch ran, then <<[Format, Err]>>:
                 \* opts.Format and whether encoding onto os.Stdout failed
    exitCode,    \* process exit status, -1 while running
    arg,         \* argument of the function under test
    ret          \* its return value

vars == <<pc, strict, file1, file2, pol, comps1, comps2, warnings,
          result, violations, stdout, exitCode, arg, ret>>

mainVars == <<strict, file1, file2, pol, comps1, comps2, warnings,
              result, violations, stdout, exitCode>>

(***************************************************************************)
(* Bounds of the model.                                                    *)
(***************************************************************************)
MaxCPEs == 2       \* CPEs per component in the identity harness
MaxLicenses == 2   \* licenses per component in the drift harness
MaxComps == 2      \* components per input list in the differ runs
MaxEdges == 2      \* edges per dependency graph in the graph runs
MaxLimit == 2      \* largest max_added / max_removed / max_changed tried
MaxPURLLen == 3    \* characters per PURL in the PURL harness

(***************************************************************************)
(* Strings.                                                                *)
(***************************************************************************)
Nil == <<>>
Ptr(x) == <<x>>

\* The characters the model uses, in byte order.
ByteOrder ==
    <<"\t", " ", "#", "*", "-", ".", "/", "0", "1", "2", "3", ":", "?", "@",
      "A", "E", "I", "M", "N", "O", "T",
      "a", "b", "c", "d", "e", "f", "h", "i", "k", "l", "m", "n", "o", "p",
      "r", "s", "t", "u", "v", "w", "x">>

Ord(c) == CHOOSE i \in 1..Len(ByteOrder) : ByteOrder[i] = c

RECURSIVE StrLess(_, _)
StrLess(a, b) ==
    IF Len(b) = 0 THEN FALSE
    ELSE IF Len(a) = 0 THEN TRUE
    ELSE IF a[1] # b[1] THEN Ord(a[1]) < Ord(b[1])
    ELSE StrLess(Tail(a), Tail(b))

HasPrefix(s, p) == Len(s) >= Len(p) /\ SubSeq(s, 1, Len(p)) = p

\* strings.Index(s, c): 1-based position of the first c, 0 when absent
Index(s, c) ==
    IF \E i \in 1..Len(s) : s[i] = c
    THEN CHOOSE i \in 1..Len(s) : s[i] = c /\ \A j \in 1..(i - 1) : s[j] # c
    ELSE 0

\* strings.LastIndex(s, c): 1-based position of the last c, 0 when absent
LastIndex(s, c) ==
    IF \E i \in 1..Len(s) : s[i] = c
    THEN CHOOSE i \in 1..Len(s) : s[i] = c /\ \A j \in (i + 1)..Len(s) : s[j] # c
    ELSE 0

\* unicode.IsSpace on the characters of the model
IsSpace(c) == c \in {" ", "\t"}

\* strings.TrimSpace
RECURSIVE TrimLeft(_)
TrimLeft(s) ==
    IF Len(s) > 0 /\ IsSpace(s[1]) THEN TrimLeft(Tail(s)) ELSE s

RECURSIVE TrimRight(_)
TrimRight(s) ==
    IF Len(s) > 0 /\ IsSpace(s[Len(s)]) THEN TrimRight(SubSeq(s, 1, Len(s) - 1))
    ELSE s

TrimSpace(s) == TrimRight(TrimLeft(s))

\* strings.ToLower on the characters of the model
LowerOf(c) ==
    CASE c = "A" -> "a" [] c = "E" -> "e" [] c = "I" -> "i" [] c = "M" -> "m"
      [] c = "N" -> "n" [] c = "O" -> "o" [] c = "T" -> "t"
      [] OTHER -> c

ToLower(s) == [i \in 1..Len(s) |-> LowerOf(s[i])]

\* strings.Split(s, sep) for a one-character separator
RECURSIVE Split(_, _)
Split(s, sep) ==
    LET i == Index(s, sep)
    IN IF i = 0 THEN <<s>>
       ELSE <<SubSeq(s, 1, i - 1)>> \o Split(SubSeq(s, i + 1, Len(s)), sep)

\* sort.Strings and sort.Slice by a string key, on a sequence of <<key, value>>
\* pairs: insertion sort (every sort.Slice of the program has distinct keys
\* where its order is observed)
RECURSIVE InsertPair(_, _)
InsertPair(x, s) ==
    IF Len(s) = 0 THEN <<x>>
    ELSE IF StrLess(x[1], s[1][1]) THEN <<x>> \o s
    ELSE <<s[1]>> \o InsertPair(x, Tail(s))

RECURSIVE SortPairs(_)
SortPairs(s) ==
    IF Len(s) = 0 THEN <<>>
    ELSE InsertPair(s[1], SortPairs(Tail(s)))

SortStrings(s) ==
    LET sorted == SortPairs([i \in 1..Len(s) |-> <<s[i], s[i]>>])
    IN [i \in 1..Len(s) |-> sorted[i][2]]

SortByID(s) ==
    LET sorted == SortPairs([i \in 1..Len(s) |-> <<s[i].ID, s[i]>>])
    IN [i \in 1..Len(s) |-> sorted[i][2]]

SortByTarget(s) ==
    LET sorted == SortPairs([i \in 1..Len(s) |-> <<s[i].Target, s[i]>>])
    IN [i \in 1..Len(s) |-> sorted[i][2]]

Range(s) == {s[i] : i \in 1..Len(s)}

\* ToSet: the key set of the map[string]bool
ToSet(slice) == Range(slice)

RECURSIVE SetToSeq(_)
SetToSeq(S) ==
    IF S = {} THEN <<>>
    ELSE LET x == CHOOSE y \in S : TRUE IN <<x>> \o SetToSeq(S \ {x})

\* every order in which Go may range over a map with key set S
RECURSIVE PermSeqs(_)
PermSeqs(S) ==
    IF S = {} THEN {<<>>}
    ELSE UNION { {<<x>> \o p : p \in PermSeqs(S \ {x})} : x \in S }

RECURSIVE Concat(_)
Concat(ss) == IF Len(ss) = 0 THEN <<>> ELSE ss[1] \o Concat(Tail(ss))

\* all sequences over S of length at most n
RECURSIVE SeqsUpTo(_, _)
SeqsUpTo(S, n) ==
    IF n = 0 THEN {<<>>}
    ELSE LET shorter == SeqsUpTo(S, n - 1)
         IN shorter \cup {Append(s, x) : s \in shorter, x \in S}

(***************************************************************************)
(* Component                                                               *)
(***************************************************************************)
EmptyStr == <<>>
NoHashes == [a \in {} |-> EmptyStr]

Component ==
    [ID |-> EmptyStr, Name |-> EmptyStr, Version |-> EmptyStr, PURL |-> EmptyStr,
     Licenses |-> <<>>, CPEs |-> <<>>, Hashes |-> NoHashes, Dependencies |-> <<>>,
     BOMRef |-> EmptyStr, SPDXID |-> EmptyStr, Namespace |-> EmptyStr,
     Supplier |-> EmptyStr, Language |-> EmptyStr, FoundBy |-> EmptyStr,
     Type |-> EmptyStr, RawJSON |-> EmptyStr]

(***************************************************************************)
(* Identity                                                                *)
(***************************************************************************)
\* the version cut at the first '@' instead of the last
normalizePURL_FirstAt(purl) ==
    IF purl = EmptyStr THEN EmptyStr
    ELSE LET p1 == IF Index(purl, "#") # 0
                   THEN SubSeq(purl, 1, Index(purl, "#") - 1) ELSE purl
             p2 == IF Index(p1, "?") # 0
                   THEN SubSeq(p1, 1, Index(p1, "?") - 1) ELSE p1
         IN IF Index(p2, "@") # 0
            THEN SubSeq(p2, 1, Index(p2, "@") - 1) ELSE p2

normalizePURL(purl) ==
    IF purl = EmptyStr THEN EmptyStr
    ELSE LET p1 == IF Index(purl, "#") # 0
                   THEN SubSeq(purl, 1, Index(purl, "#") - 1) ELSE purl
             p2 == IF Index(p1, "?") # 0
                   THEN SubSeq(p1, 1, Index(p1, "?") - 1) ELSE p1
         IN IF LastIndex(p2, "@") # 0
            THEN SubSeq(p2, 1, LastIndex(p2, "@") - 1) ELSE p2

CpePrefix == <<"c", "p", "e", ":">>
Cpe23Prefix == <<"c", "p", "e", ":", "2", ".", "3", ":">>
Cpe22Prefix == <<"c", "p", "e", ":", "/">>

normalizeCPE(cpe) ==
    IF cpe = EmptyStr THEN EmptyStr
    ELSE IF HasPrefix(cpe, Cpe23Prefix)
    THEN LET parts == Split(cpe, ":")
         IN IF Len(parts) >= 5
               /\ parts[4] # EmptyStr /\ parts[4] # <<"*">>
               /\ parts[5] # EmptyStr /\ parts[5] # <<"*">>
            THEN CpePrefix \o parts[4] \o <<":">> \o parts[5]
            ELSE EmptyStr
    ELSE IF HasPrefix(cpe, Cpe22Prefix)
    THEN LET parts == Split(SubSeq(cpe, 6, Len(cpe)), ":")
         IN IF Len(parts) >= 3 /\ parts[2] # EmptyStr /\ parts[3] # EmptyStr
            THEN CpePrefix \o parts[2] \o <<":">> \o parts[3]
            ELSE EmptyStr
    ELSE EmptyStr

RefPrefix == <<"r", "e", "f", ":">>

\* a loop over c.CPEs that gives up after the first CPE
FirstNormalizedCPE_OnlyFirst(cpes) ==
    IF Len(cpes) = 0 THEN EmptyStr ELSE normalizeCPE(cpes[1])

\* the loop over c.CPEs: the first CPE whose normal form is not empty
RECURSIVE FirstNormalizedCPE(_)
FirstNormalizedCPE(cpes) ==
    IF Len(cpes) = 0 THEN EmptyStr
    ELSE IF normalizeCPE(cpes[1]) # EmptyStr THEN normalizeCPE(cpes[1])
    ELSE FirstNormalizedCPE(Tail(cpes))

computeComponentID(c) ==
    IF c.PURL # EmptyStr THEN normalizePURL(c.PURL)
    ELSE IF FirstNormalizedCPE(c.CPEs) # EmptyStr THEN FirstNormalizedCPE(c.CPEs)
    ELSE IF c.BOMRef # EmptyStr THEN RefPrefix \o c.BOMRef
    ELSE IF c.SPDXID # EmptyStr THEN RefPrefix \o c.SPDXID
    ELSE IF c.Namespace # EmptyStr THEN c.Namespace \o <<"/">> \o c.Name
    ELSE c.Name

(***************************************************************************)
(* Normalizer (sbom.NormalizeComponent)                                    *)
(***************************************************************************)
normalizeString(s) == ToLower(TrimSpace(s))

\* the sentinels looked for in the string as given, before it is trimmed
normalizeLicense_SentinelBeforeTrim(s) ==
    LET t == TrimSpace(s)
        lower == ToLower(s)
    IN IF lower = <<"n","o","a","s","s","e","r","t","i","o","n">>
          \/ lower = <<"n","o","n","e">>
          \/ lower = <<"u","n","k","n","o","w","n">>
       THEN EmptyStr
       ELSE IF lower = <<"m","i","t">> THEN <<"M","I","T">>
       ELSE t

\* "mit" compared with the string itself instead of its lower-cased form
normalizeLicense_MitAsWritten(s) ==
    LET t == TrimSpace(s)
        lower == ToLower(t)
    IN IF lower = <<"n","o","a","s","s","e","r","t","i","o","n">>
          \/ lower = <<"n","o","n","e">>
          \/ lower = <<"u","n","k","n","o","w","n">>
       THEN EmptyStr
       ELSE IF t = <<"m","i","t">> THEN <<"M","I","T">>
       ELSE t

normalizeLicense(s) ==
    LET t == TrimSpace(s)
        lower == ToLower(t)
    IN IF lower = <<"n","o","a","s","s","e","r","t","i","o","n">>
          \/ lower = <<"n","o","n","e">>
          \/ lower = <<"u","n","k","n","o","w","n">>
       THEN EmptyStr
       ELSE IF lower = <<"m","i","t">> THEN <<"M","I","T">>
       ELSE t

\* the loop over c.Licenses: the normal forms that are not empty, in order
RECURSIVE NormalizeLicenses(_)
NormalizeLicenses(lics) ==
    IF Len(lics) = 0 THEN <<>>
    ELSE LET n == normalizeLicense(lics[1])
         IN (IF n # EmptyStr THEN <<n>> ELSE <<>>) \o NormalizeLicenses(Tail(lics))

NormalizeComponent(c) ==
    LET normalized ==
            [Component EXCEPT
                !.ID = c.ID,
                !.Name = normalizeString(c.Name),
                !.Version = TrimSpace(c.Version),
                !.PURL = TrimSpace(c.PURL),
                !.Hashes = c.Hashes,
                !.Dependencies = c.Dependencies,
                !.CPEs = c.CPEs,
                !.BOMRef = TrimSpace(c.BOMRef),
                !.SPDXID = TrimSpace(c.SPDXID),
                !.Namespace = TrimSpace(c.Namespace),
                !.Supplier = TrimSpace(c.Supplier),
                !.RawJSON = c.RawJSON,
                !.Licenses = NormalizeLicenses(c.Licenses)]
    IN IF normalized.ID = EmptyStr
       THEN [normalized EXCEPT !.ID = computeComponentID(normalized)]
       ELSE normalized

NormalizeComponents(comps) == [i \in 1..Len(comps) |-> NormalizeComponent(comps[i])]

(***************************************************************************)
(* Duplicates and collisions (internal/analysis/stats.go)                  *)
(***************************************************************************)
\* groups[id]: the components with that ID, in input order
GroupIDs(comps) == {comps[i].ID : i \in 1..Len(comps)}
Group(comps, id) == SelectSeq(comps, LAMBDA c : c.ID = id)

\* the versions of a group without repetition, in order of first appearance
RECURSIVE DistinctVersions(_, _)
DistinctVersions(components, seen) ==
    IF Len(components) = 0 THEN <<>>
    ELSE LET v == components[1].Version
         IN IF v \in seen THEN DistinctVersions(Tail(components), seen)
            ELSE <<v>> \o DistinctVersions(Tail(components), seen \cup {v})

\* a group only for an identity seen at two versions or more
DetectDuplicates_DistinctVersionsOnly(comps) ==
    LET dupIDs == {id \in GroupIDs(comps) :
                      Len(DistinctVersions(Group(comps, id), {})) > 1}
        group(id) ==
            [ID |-> id,
             Name |-> Group(comps, id)[1].Name,
             Versions |-> SortStrings(DistinctVersions(Group(comps, id), {})),
             Components |-> Group(comps, id)]
    IN SortByID(SetToSeq({group(id) : id \in dupIDs}))

DetectDuplicates(comps) ==
    LET dupIDs == {id \in GroupIDs(comps) : Len(Group(comps, id)) > 1}
        group(id) ==
            [ID |-> id,
             Name |-> Group(comps, id)[1].Name,
             Versions |-> SortStrings(DistinctVersions(Group(comps, id), {})),
             Components |-> Group(comps, id)]
    IN SortByID(SetToSeq({group(id) : id \in dupIDs}))

DuplicateVersionDiffIsEmpty(d) ==
    /\ DOMAIN d.VersionsAdded = {} /\ DOMAIN d.VersionsRemoved = {}
    /\ Len(d.NewDuplicates) = 0 /\ Len(d.ResolvedDuplicates) = 0

\* beforeMap / afterMap of DiffDuplicateVersions: group IDs are distinct
GroupByID(groups, id) == (CHOOSE i \in 1..Len(groups) : groups[i].ID = id)

DiffDuplicateVersions(before, after) ==
    LET bIDs == {before[i].ID : i \in 1..Len(before)}
        aIDs == {after[i].ID : i \in 1..Len(after)}
        bVers(id) == ToSet(before[GroupByID(before, id)].Versions)
        aVers(id) == ToSet(after[GroupByID(after, id)].Versions)
        addedIDs == {id \in aIDs \cap bIDs : aVers(id) \ bVers(id) # {}}
        removedIDs == {id \in aIDs \cap bIDs : bVers(id) \ aVers(id) # {}}
    IN [VersionsAdded |->
            [id \in addedIDs |-> SortStrings(SetToSeq(aVers(id) \ bVers(id)))],
        VersionsRemoved |->
            [id \in removedIDs |-> SortStrings(SetToSeq(bVers(id) \ aVers(id)))],
        NewDuplicates |->
            SortByID(SelectSeq(after, LAMBDA g : g.ID \notin bIDs)),
        ResolvedDuplicates |->
            SortByID(SelectSeq(before, LAMBDA g : g.ID \notin aIDs))]

\* The orders in which the hash maps of comps may be ranged over: one
\* order of its algorithms for each component.
HashOrders(comps) ==
    { f \in [1..Len(comps) -> UNION {PermSeqs(DOMAIN comps[i].Hashes) : i \in 1..Len(comps)}] :
        \A i \in 1..Len(comps) : f[i] \in PermSeqs(DOMAIN comps[i].Hashes) }

\* the hashes of a group kept per algorithm, whatever the version
RECURSIVE RangeHashes_AnyVersion(_, _, _)
RangeHashes_AnyVersion(c, order, versionHashes) ==
    IF Len(order) = 0 THEN <<versionHashes, FALSE>>
    ELSE LET key == <<EmptyStr, order[1]>>
             hash == c.Hashes[order[1]]
         IN IF key \in DOMAIN versionHashes /\ versionHashes[key] # hash
            THEN <<versionHashes, TRUE>>
            ELSE RangeHashes_AnyVersion(c, Tail(order),
                     [k \in DOMAIN versionHashes \cup {key} |->
                        IF k = key THEN hash ELSE versionHashes[k]])

\* the loop "for algo, hash := range c.Hashes" for one component: the pair
\* <<versionHashes after the loop, whether a collision was appended>>
RECURSIVE RangeHashes(_, _, _)
RangeHashes(c, order, versionHashes) ==
    IF Len(order) = 0 THEN <<versionHashes, FALSE>>
    ELSE LET key == <<c.Version, order[1]>>
             hash == c.Hashes[order[1]]
         IN IF key \in DOMAIN versionHashes /\ versionHashes[key] # hash
            THEN <<versionHashes, TRUE>>
            ELSE RangeHashes(c, Tail(order),
                     [k \in DOMAIN versionHashes \cup {key} |->
                        IF k = key THEN hash ELSE versionHashes[k]])

\* the loop over a group's components: how many hash_mismatch collisions
\* it appends.  idx are the positions of the group's members in comps.
RECURSIVE HashCollisions(_, _, _, _)
HashCollisions(comps, idx, hashOrder, versionHashes) ==
    IF Len(idx) = 0 THEN 0
    ELSE LET c == comps[idx[1]]
             r == RangeHashes(c, hashOrder[idx[1]], versionHashes)
         IN (IF r[2] THEN 1 ELSE 0)
            + HashCollisions(comps, Tail(idx), hashOrder, r[1])

GroupIdx(comps, id) ==
    LET all == [i \in 1..Len(comps) |-> i]
    IN SelectSeq(all, LAMBDA i : comps[i].ID = id)

NoVersionHashes == [k \in {} |-> EmptyStr]

\* sort.Slice by ID is not stable, but the entries that share an ID are equal
DetectCollisions(comps, hashOrder) ==
    LET of(id) ==
            LET components == Group(comps, id)
                names == {components[i].Name : i \in 1..Len(components)}
                n == HashCollisions(comps, GroupIdx(comps, id), hashOrder,
                                    NoVersionHashes)
            IN IF Len(components) < 2 THEN <<>>
               ELSE IF Cardinality(names) > 1
               THEN <<[ID |-> id, Reason |-> "name_mismatch",
                       Components |-> components]>>
               ELSE [i \in 1..n |-> [ID |-> id, Reason |-> "hash_mismatch",
                                      Components |-> components]]
        ids == SortStrings(SetToSeq(GroupIDs(comps)))
    IN Concat([i \in 1..Len(ids) |-> of(ids[i])])

\* "Combine and deduplicate collisions": the first entry of each ID:Reason
RECURSIVE DedupCollisions(_, _)
DedupCollisions(all, seen) ==
    IF Len(all) = 0 THEN <<>>
    ELSE LET key == <<all[1].ID, all[1].Reason>>
         IN IF key \in seen THEN DedupCollisions(Tail(all), seen)
            ELSE <<all[1]>> \o DedupCollisions(Tail(all), seen \cup {key})

(***************************************************************************)
(* Drift classification (internal/analysis/drift.go)                       *)
(***************************************************************************)
\* EqualSlices: same length and the sorted copies agree position by position
EqualSlices(a, b) ==
    IF Len(a) # Len(b) THEN FALSE
    ELSE LET aCopy == SortStrings(a)
             bCopy == SortStrings(b)
         IN \A i \in 1..Len(aCopy) : aCopy[i] = bCopy[i]

DiffHashes(before, after) ==
    [Added   |-> [algo \in (DOMAIN after) \ (DOMAIN before) |-> after[algo]],
     Removed |-> [algo \in (DOMAIN before) \ (DOMAIN after) |-> before[algo]],
     Changed |-> [algo \in {x \in DOMAIN after :
                               x \in DOMAIN before /\ before[x] # after[x]}
                   |-> [Before |-> before[algo], After |-> after[algo]]]]

HashDiffIsEmpty(h) ==
    DOMAIN h.Added = {} /\ DOMAIN h.Removed = {} /\ DOMAIN h.Changed = {}

\* the "+lic" and "-lic" entries appended by ClassifyDrift. The list is built
\* by ranging over two maps, so its order is Go's map iteration order: the
\* model keeps the entries and not their order
LicensesDiff(before, after) ==
    IF ~EqualSlices(before.Licenses, after.Licenses)
    THEN {<<"+", lic>> : lic \in ToSet(after.Licenses) \ ToSet(before.Licenses)}
         \cup {<<"-", lic>> : lic \in ToSet(before.Licenses) \ ToSet(after.Licenses)}
    ELSE {}

ClassifyDrift(before, after) ==
    LET versionChanged == before.Version # after.Version
        hashDiff == DiffHashes(before.Hashes, after.Hashes)
        licDiff == LicensesDiff(before, after)
    IN [Type |-> IF ~HashDiffIsEmpty(hashDiff) /\ ~versionChanged THEN "integrity"
                 ELSE IF versionChanged THEN "version"
                 ELSE IF licDiff # {} THEN "metadata"
                 ELSE "none",
        HashChanges |-> IF HashDiffIsEmpty(hashDiff) THEN Nil ELSE Ptr(hashDiff),
        VersionFrom |-> IF versionChanged THEN before.Version ELSE EmptyStr,
        VersionTo |-> IF versionChanged THEN after.Version ELSE EmptyStr,
        LicensesDiff |-> licDiff]

(***************************************************************************)
(* Dependency graph (analysis: BuildDependencyGraph ... computeDepthSummary)*)
(***************************************************************************)
\* graph[id] with Go's zero value for a missing key
Deps(graph, id) == IF id \in DOMAIN graph THEN graph[id] ELSE <<>>

\* graph[c.ID] = c.Dependencies for each component in turn: the last one wins
RECURSIVE BuildDependencyGraphFrom(_, _)
BuildDependencyGraphFrom(comps, graph) ==
    IF Len(comps) = 0 THEN graph
    ELSE BuildDependencyGraphFrom(Tail(comps),
            [id \in DOMAIN graph \cup {comps[1].ID} |->
                IF id = comps[1].ID THEN comps[1].Dependencies ELSE graph[id]])

EmptyGraph == [id \in {} |-> <<>>]

BuildDependencyGraph(comps) == BuildDependencyGraphFrom(comps, EmptyGraph)

RECURSIVE bfsReachableLoop(_, _, _)
bfsReachableLoop(graph, queue, visited) ==
    IF Len(queue) = 0 THEN visited
    ELSE LET current == queue[1]
         IN IF current \in visited
            THEN bfsReachableLoop(graph, Tail(queue), visited)
            ELSE LET now == visited \cup {current}
                 IN bfsReachableLoop(graph,
                        Tail(queue) \o SelectSeq(Deps(graph, current),
                                                 LAMBDA dep : dep \notin now),
                        now)

bfsReachable(graph, start) == bfsReachableLoop(graph, <<start>>, {}) \ {start}

computeAllReachable(graph) == [node \in DOMAIN graph |-> bfsReachable(graph, node)]

NoPath == [path |-> <<>>, depth |-> -1]

\* the queue holds [id, path]; the inner loop returns at the first dep that is
\* the target, so what it had queued before is dropped
RECURSIVE bfsWithPathLoop(_, _, _, _)
bfsWithPathLoop(graph, queue, visited, target) ==
    IF Len(queue) = 0 THEN NoPath
    ELSE LET current == queue[1]
         IN IF current.id \in visited
            THEN bfsWithPathLoop(graph, Tail(queue), visited, target)
            ELSE LET now == visited \cup {current.id}
                     deps == Deps(graph, current.id)
                     fresh == SelectSeq(deps, LAMBDA dep : dep \notin now)
                 IN IF target \in Range(deps)
                    THEN [path |-> Append(current.path, target),
                          depth |-> Len(current.path)]
                    ELSE bfsWithPathLoop(graph,
                            Tail(queue) \o
                              [i \in 1..Len(fresh) |->
                                 [id |-> fresh[i], path |-> Append(current.path, fresh[i])]],
                            now, target)

bfsWithPath(graph, start, target) ==
    IF start = target THEN [path |-> <<>>, depth |-> 0]
    ELSE bfsWithPathLoop(graph, <<[id |-> start, path |-> <<start>>]>>, {}, target)

\* an edge from a node to itself not counted as a dependency
FindRoots_SelfEdgeIsRoot(graph) ==
    LET isDep == UNION {Range(graph[n]) \ {n} : n \in DOMAIN graph}
    IN SortStrings(SetToSeq({node \in DOMAIN graph : node \notin isDep}))

FindRoots(graph) ==
    LET isDep == UNION {Range(graph[n]) : n \in DOMAIN graph}
    IN SortStrings(SetToSeq({node \in DOMAIN graph : node \notin isDep}))

\* The roots diffReachability walks: FindRoots, or, when there is none, the
\* keys of the graph in any order (Go's map iteration order).
RootOrders(graph) ==
    IF Len(FindRoots(graph)) # 0 THEN {FindRoots(graph)}
    ELSE PermSeqs(DOMAIN graph)

\* the filter with direct dependencies let through
IsTransitive_AnyDepth(depth) == depth > 0

\* "Only report truly transitive (not direct)"
IsTransitive(depth) == depth > 1

\* One half of diffReachability: the loop over roots.  The deps of one root
\* are ranged over in map order, but what is appended for a dep depends only
\* on whether that same dep was seen, so the entries of one root are a set.
RECURSIVE ReachabilityLoop(_, _, _, _, _)
ReachabilityLoop(graph, roots, hereReach, thereReach, seen) ==
    IF Len(roots) = 0 THEN {}
    ELSE LET root == roots[1]
             hereSet == IF root \in DOMAIN hereReach THEN hereReach[root] ELSE {}
             thereSet == IF root \in DOMAIN thereReach THEN thereReach[root] ELSE {}
             found == { [Target |-> dep,
                         Via |-> bfsWithPath(graph, root, dep).path,
                         Depth |-> bfsWithPath(graph, root, dep).depth] :
                        dep \in {d \in hereSet : d \notin thereSet /\ d \notin seen} }
             kept == {td \in found : IsTransitive(td.Depth)}
         IN kept \cup ReachabilityLoop(graph, Tail(roots), hereReach, thereReach,
                                       seen \cup {td.Target : td \in kept})

diffReachability(before, after, beforeReach, afterReach, afterRoots, beforeRoots) ==
    [newDeps |-> SortByTarget(SetToSeq(
                    ReachabilityLoop(after, afterRoots, afterReach, beforeReach, {}))),
     lostDeps |-> SortByTarget(SetToSeq(
                    ReachabilityLoop(before, beforeRoots, beforeReach, afterReach, {})))]

\* a switch whose cases all fall to the default
computeDepthSummary_AllDeep(deps) ==
    [Depth1 |-> 0, Depth2 |-> 0, Depth3Plus |-> Len(deps)]

computeDepthSummary(deps) ==
    [Depth1 |-> Cardinality({i \in 1..Len(deps) : deps[i].Depth = 1}),
     Depth2 |-> Cardinality({i \in 1..Len(deps) : deps[i].Depth = 2}),
     Depth3Plus |-> Cardinality({i \in 1..Len(deps) : deps[i].Depth \notin {1, 2}})]

\* the deps of now[id] that are not in then[id], sorted (repetitions kept)
NewEdges(now, then, id) ==
    SortStrings(SelectSeq(now[id], LAMBDA dep : dep \notin ToSet(Deps(then, id))))

DiffDependencyGraphs(before, after, afterRoots, beforeRoots) ==
    LET reach == diffReachability(before, after, computeAllReachable(before),
                                  computeAllReachable(after), afterRoots, beforeRoots)
    IN [AddedDeps |->
            [id \in {n \in DOMAIN after : Len(NewEdges(after, before, n)) > 0} |->
                NewEdges(after, before, id)],
        RemovedDeps |->
            [id \in {n \in DOMAIN before : Len(NewEdges(before, after, n)) > 0} |->
                NewEdges(before, after, id)],
        TransitiveNew |-> reach.newDeps,
        TransitiveLost |-> reach.lostDeps,
        DepthSummary |-> IF Len(reach.newDeps) > 0
                         THEN Ptr(computeDepthSummary(reach.newDeps)) ELSE Nil]

DependencyDiffIsEmpty(d) ==
    /\ DOMAIN d.AddedDeps = {} /\ DOMAIN d.RemovedDeps = {}
    /\ Len(d.TransitiveNew) = 0 /\ Len(d.TransitiveLost) = 0

(***************************************************************************)
(* Differ (sbom.CompareComponents, analysis.DiffComponents)                *)
(***************************************************************************)
\* a comparator that also reports an algorithm only one side has
CompareComponents_AnyHashDifference(before, after) ==
    [fields |-> (IF before.Version # after.Version THEN <<"version">> ELSE <<>>)
                \o (IF ~EqualSlices(before.Licenses, after.Licenses)
                    THEN <<"licenses">> ELSE <<>>),
     hashes |-> {algo \in DOMAIN before.Hashes \cup DOMAIN after.Hashes :
                   algo \notin DOMAIN after.Hashes
                   \/ algo \notin DOMAIN before.Hashes
                   \/ before.Hashes[algo] # after.Hashes[algo]}]

\* The change strings of CompareComponents: the "version" and "licenses"
\* entries in that order, then one entry per hash algorithm of both sides
\* whose values differ, in map iteration order: the model keeps those as a set.
CompareComponents(before, after) ==
    [fields |-> (IF before.Version # after.Version THEN <<"version">> ELSE <<>>)
                \o (IF ~EqualSlices(before.Licenses, after.Licenses)
                    THEN <<"licenses">> ELSE <<>>),
     hashes |-> {algo \in DOMAIN before.Hashes :
                   algo \in DOMAIN after.Hashes
                   /\ before.Hashes[algo] # after.Hashes[algo]}]

NumChanges(changes) == Len(changes.fields) + Cardinality(changes.hashes)

SummarizeDrift(changes) ==
    LET n(type) == Cardinality({i \in 1..Len(changes) :
                        changes[i].Drift # Nil /\ changes[i].Drift[1].Type = type})
    IN [VersionDrift |-> n("version"), IntegrityDrift |-> n("integrity"),
        MetadataDrift |-> n("metadata")]

\* maps filled without the "already there" test: the last component wins
LastByID(comps, id) == Group(comps, id)[Len(Group(comps, id))]

\* beforeMap / afterMap: the first component of each ID
FirstByID(comps, id) == Group(comps, id)[1]

EmptyDuplicateReport ==
    [Before |-> <<>>, After |-> <<>>, VersionDiff |-> Nil, Collisions |-> <<>>]

\* orders: the map iteration orders Go picked: hashBefore and hashAfter for
\* DetectCollisions, afterRoots and beforeRoots for diffReachability
\* the "removed" loop ranging over afterMap, where every test finds the key
DiffComponents_RemovedFromAfter(before, after, orders) ==
    LET bIDs == GroupIDs(before)
        aIDs == GroupIDs(after)
        added == {FirstByID(after, id) : id \in aIDs \ bIDs}
    IN [Added |-> SortByID(SetToSeq(added)),
        Removed |-> <<>>,
        Changed |-> <<>>,
        DriftSummary |-> Nil,
        Duplicates |-> Nil,
        Dependencies |-> Nil]

DiffComponents(before, after, orders) ==
    LET beforeDups == DetectDuplicates(before)
        afterDups == DetectDuplicates(after)
        bIDs == GroupIDs(before)
        aIDs == GroupIDs(after)
        added == {FirstByID(after, id) : id \in aIDs \ bIDs}
        removed == {FirstByID(before, id) : id \in bIDs \ aIDs}
        changedOf(id) ==
            LET b == FirstByID(before, id)
                a == FirstByID(after, id)
            IN [ID |-> id, Name |-> b.Name, Before |-> b, After |-> a,
                Changes |-> CompareComponents(b, a),
                Drift |-> Ptr(ClassifyDrift(b, a))]
        changed == SortByID(SetToSeq(
                      {changedOf(id) : id \in {x \in bIDs \cap aIDs :
                          NumChanges(CompareComponents(FirstByID(before, x),
                                                       FirstByID(after, x))) > 0}}))
        summary == SummarizeDrift(changed)
        versionDiff == DiffDuplicateVersions(beforeDups, afterDups)
        report1 ==
            IF Len(beforeDups) > 0 \/ Len(afterDups) > 0
            THEN Ptr([EmptyDuplicateReport EXCEPT
                        !.Before = beforeDups, !.After = afterDups,
                        !.VersionDiff = IF DuplicateVersionDiffIsEmpty(versionDiff)
                                        THEN Nil ELSE Ptr(versionDiff)])
            ELSE Nil
        beforeCollisions == DetectCollisions(before, orders.hashBefore)
        afterCollisions == DetectCollisions(after, orders.hashAfter)
        report2 ==
            IF Len(beforeCollisions) > 0 \/ Len(afterCollisions) > 0
            THEN LET base == IF report1 = Nil THEN EmptyDuplicateReport ELSE report1[1]
                 IN Ptr([base EXCEPT !.Collisions =
                            DedupCollisions(beforeCollisions \o afterCollisions, {})])
            ELSE report1
        depDiff == DiffDependencyGraphs(BuildDependencyGraph(before),
                                        BuildDependencyGraph(after),
                                        orders.afterRoots, orders.beforeRoots)
    IN [Added |-> SortByID(SetToSeq(added)),
        Removed |-> SortByID(SetToSeq(removed)),
        Changed |-> changed,
        DriftSummary |->
            IF Len(changed) > 0
               /\ (summary.VersionDrift > 0 \/ summary.IntegrityDrift > 0
                   \/ summary.MetadataDrift > 0)
            THEN Ptr(summary) ELSE Nil,
        Duplicates |-> report2,
        Dependencies |-> IF DependencyDiffIsEmpty(depDiff) THEN Nil ELSE Ptr(depDiff)]

\* the orders Go may pick while diffing before and after
DiffOrders(before, after) ==
    [hashBefore : HashOrders(before), hashAfter : HashOrders(after),
     afterRoots : RootOrders(BuildDependencyGraph(after)),
     beforeRoots : RootOrders(BuildDependencyGraph(before))]

(***************************************************************************)
(* Policy (policy.Evaluate, policy.HasErrors)                              *)
(***************************************************************************)
NoopPolicy ==
    [MaxAdded |-> 0, MaxRemoved |-> 0, MaxChanged |-> 0, DenyLicenses |-> <<>>,
     RequireLicenses |-> FALSE, DenyDuplicates |-> FALSE,
     DenyIntegrityDrift |-> FALSE, MaxDepth |-> 0,
     WarnSupplierChange |-> FALSE, WarnNewTransitive |-> FALSE]

\* A violation; Message holds the values that fmt.Sprintf formats into the text.
Violation(rule, severity, message) ==
    [Rule |-> rule, Severity |-> severity, Message |-> message]

\* the limit compared with >= instead of >
LimitRule_AtLeast(rule, limit, list) ==
    IF limit > 0 /\ Len(list) >= limit
    THEN <<Violation(rule, "error", <<Len(list), limit>>)>>
    ELSE <<>>

LimitRule(rule, limit, list) ==
    IF limit > 0 /\ Len(list) > limit
    THEN <<Violation(rule, "error", <<Len(list), limit>>)>>
    ELSE <<>>

\* an inner loop that leaves a component at its first denied license
DenyLicensesRule_OncePerComponent(policy, res) ==
    IF Len(policy.DenyLicenses) > 0
    THEN LET hit == SelectSeq(res.Added,
                      LAMBDA comp : Range(comp.Licenses) \cap Range(policy.DenyLicenses) # {})
         IN [i \in 1..Len(hit) |->
               LET lics == SelectSeq(hit[i].Licenses,
                                     LAMBDA lic : lic \in Range(policy.DenyLicenses))
               IN Violation("deny_licenses", "error", <<hit[i].Name, lics[1]>>)]
    ELSE <<>>

DenyLicensesRule(policy, res) ==
    IF Len(policy.DenyLicenses) > 0
    THEN Concat([i \in 1..Len(res.Added) |->
            LET comp == res.Added[i]
                hits == SelectSeq(comp.Licenses,
                                  LAMBDA lic : lic \in Range(policy.DenyLicenses))
            IN [j \in 1..Len(hits) |->
                  Violation("deny_licenses", "error", <<comp.Name, hits[j]>>)]])
    ELSE <<>>

RequireLicensesRule(policy, res) ==
    IF policy.RequireLicenses
    THEN LET bare == SelectSeq(res.Added, LAMBDA comp : Len(comp.Licenses) = 0)
         IN [i \in 1..Len(bare) |->
               Violation("require_licenses", "error", <<bare[i].Name>>)]
    ELSE <<>>

DenyDuplicatesRule(policy, res) ==
    IF policy.DenyDuplicates /\ res.Duplicates # Nil
       /\ Len(res.Duplicates[1].After) > 0
    THEN <<Violation("deny_duplicates", "error", <<Len(res.Duplicates[1].After)>>)>>
    ELSE <<>>

IsIntegrity(changed) == changed.Drift # Nil /\ changed.Drift[1].Type = "integrity"

\* a loop that stops at the first integrity drift
DenyIntegrityDriftRule_OnePerRun(policy, res) ==
    IF policy.DenyIntegrityDrift /\ res.DriftSummary # Nil
       /\ res.DriftSummary[1].IntegrityDrift > 0
    THEN <<Violation("deny_integrity_drift", "error", <<res.Changed[1].Name>>)>>
    ELSE <<>>

DenyIntegrityDriftRule(policy, res) ==
    IF policy.DenyIntegrityDrift /\ res.DriftSummary # Nil
       /\ res.DriftSummary[1].IntegrityDrift > 0
    THEN LET hit == SelectSeq(res.Changed, IsIntegrity)
         IN [i \in 1..Len(hit) |->
               Violation("deny_integrity_drift", "error", <<hit[i].Name>>)]
    ELSE <<>>

\* the depth compared with > instead of >=
MaxDepthRule_Above(policy, res) ==
    IF policy.MaxDepth > 0 /\ res.Dependencies # Nil
       /\ res.Dependencies[1].DepthSummary # Nil
    THEN LET over == SelectSeq(res.Dependencies[1].TransitiveNew,
                               LAMBDA td : td.Depth > policy.MaxDepth)
             violatingDeps == [i \in 1..Len(over) |-> <<over[i].Target, over[i].Depth>>]
         IN IF Len(violatingDeps) > 0
            THEN <<Violation("max_depth", "error", <<policy.MaxDepth, violatingDeps>>)>>
            ELSE <<>>
    ELSE <<>>

MaxDepthRule(policy, res) ==
    IF policy.MaxDepth > 0 /\ res.Dependencies # Nil
       /\ res.Dependencies[1].DepthSummary # Nil
    THEN LET over == SelectSeq(res.Dependencies[1].TransitiveNew,
                               LAMBDA td : td.Depth >= policy.MaxDepth)
             violatingDeps == [i \in 1..Len(over) |-> <<over[i].Target, over[i].Depth>>]
         IN IF Len(violatingDeps) > 0
            THEN <<Violation("max_depth", "error", <<policy.MaxDepth, violatingDeps>>)>>
            ELSE <<>>
    ELSE <<>>

SupplierChanged(changed) ==
    /\ changed.Before.Supplier # changed.After.Supplier
    /\ (changed.Before.Supplier # EmptyStr \/ changed.After.Supplier # EmptyStr)

WarnSupplierChangeRule(policy, res) ==
    IF policy.WarnSupplierChange
    THEN LET hit == SelectSeq(res.Changed, SupplierChanged)
         IN [i \in 1..Len(hit) |->
               Violation("warn_supplier_change", "warning",
                         <<hit[i].Name, hit[i].Before.Supplier, hit[i].After.Supplier>>)]
    ELSE <<>>

WarnNewTransitiveRule(policy, res) ==
    IF policy.WarnNewTransitive /\ res.Dependencies # Nil
       /\ Len(res.Dependencies[1].TransitiveNew) > 0
    THEN <<Violation("warn_new_transitive", "warning",
                     <<Len(res.Dependencies[1].TransitiveNew)>>)>>
    ELSE <<>>

\* the two warning rules moved ahead of the error rules
Evaluate_WarningsFirst(policy, res) ==
    WarnSupplierChangeRule(policy, res)
    \o WarnNewTransitiveRule(policy, res)
    \o LimitRule("max_added", policy.MaxAdded, res.Added)
    \o LimitRule("max_removed", policy.MaxRemoved, res.Removed)
    \o LimitRule("max_changed", policy.MaxChanged, res.Changed)
    \o DenyLicensesRule(policy, res)
    \o RequireLicensesRule(policy, res)
    \o DenyDuplicatesRule(policy, res)
    \o DenyIntegrityDriftRule(policy, res)
    \o MaxDepthRule(policy, res)

Evaluate(policy, res) ==
    LimitRule("max_added", policy.MaxAdded, res.Added)
    \o LimitRule("max_removed", policy.MaxRemoved, res.Removed)
    \o LimitRule("max_changed", policy.MaxChanged, res.Changed)
    \o DenyLicensesRule(policy, res)
    \o RequireLicensesRule(policy, res)
    \o DenyDuplicatesRule(policy, res)
    \o DenyIntegrityDriftRule(policy, res)
    \o MaxDepthRule(policy, res)
    \o WarnSupplierChangeRule(policy, res)
    \o WarnNewTransitiveRule(policy, res)

\* a test that does not look at the severity
HasErrors_AnyViolation(vs) == Len(vs) > 0

HasErrors(vs) == \E i \in 1..Len(vs) : vs[i].Severity = "error"

(***************************************************************************)
(* main, two-file mode (package main)                                      *)
(***************************************************************************)
NoFile == [ok |-> FALSE, comps |-> <<>>]
EmptyResult ==
    [Added |-> <<>>, Removed |-> <<>>, Changed |-> <<>>, Duplicates |-> Nil,
     Dependencies |-> Nil, DriftSummary |-> Nil]

\* the state of main's variables while a function harness runs
MainIdle ==
    /\ strict = FALSE /\ file1 = NoFile /\ file2 = NoFile /\ pol = Nil
    /\ comps1 = <<>> /\ comps2 = <<>> /\ warnings = <<>>
    /\ result = EmptyResult
    /\ violations = <<>> /\ stdout = Nil /\ exitCode = -1

\* the warning recorded before the mode is looked at
parseFileWithOptions_WarnThenFail(n, file, opts) ==
    IF file.ok THEN [comps |-> file.comps, warnings |-> opts.Warnings, err |-> FALSE]
    ELSE [comps |-> <<>>,
          warnings |-> Append(opts.Warnings, [File |-> n, Field |-> EmptyStr]),
          err |-> opts.Strict]

\* parseFileWithOptions, as main uses its result: <<comps, warnings, failed>>
parseFileWithOptions(n, file, opts) ==
    IF file.ok THEN [comps |-> file.comps, warnings |-> opts.Warnings, err |-> FALSE]
    ELSE IF opts.Strict
    THEN [comps |-> <<>>, warnings |-> opts.Warnings, err |-> TRUE]
    ELSE [comps |-> <<>>,
          warnings |-> Append(opts.Warnings, [File |-> n, Field |-> EmptyStr]),
          err |-> FALSE]

ParseFile1 ==
    /\ pc = "parse1"
    /\ LET r == parseFileWithOptions(1, file1, [Strict |-> strict, Warnings |-> warnings])
       IN /\ comps1' = r.comps
          /\ warnings' = r.warnings
          /\ exitCode' = IF r.err THEN 1 ELSE exitCode
          /\ pc' = IF r.err THEN "failed" ELSE "parse2"
    /\ UNCHANGED <<strict, file1, file2, pol, comps2, result, violations, stdout, arg, ret>>

ParseFile2 ==
    /\ pc = "parse2"
    /\ LET r == parseFileWithOptions(2, file2, [Strict |-> strict, Warnings |-> warnings])
       IN /\ comps2' = r.comps
          /\ warnings' = r.warnings
          /\ exitCode' = IF r.err THEN 1 ELSE exitCode
          /\ pc' = IF r.err THEN "failed" ELSE "normalize"
    /\ UNCHANGED <<strict, file1, file2, pol, comps1, result, violations, stdout, arg, ret>>

Normalize ==
    /\ pc = "normalize"
    /\ comps1' = NormalizeComponents(comps1)
    /\ comps2' = NormalizeComponents(comps2)
    /\ pc' = "diff"
    /\ UNCHANGED <<strict, file1, file2, pol, warnings, result, violations,
                   stdout, exitCode, arg, ret>>

Diff ==
    /\ pc = "diff"
    /\ \E orders \in DiffOrders(comps1, comps2) :
          result' = DiffComponents(comps1, comps2, orders)
    /\ pc' = "policy"
    /\ UNCHANGED <<strict, file1, file2, pol, comps1, comps2, warnings, violations,
                   stdout, exitCode, arg, ret>>

\* "Policy evaluation": given is what opts.PolicyFile holds: <<>> without
\* --policy, else <<[ok, policy]>> where ok says that the file is read and
\* decoded
EvaluatePolicy(given) ==
    /\ pc = "policy"
    /\ IF given = Nil
       THEN /\ pc' = "report"
            /\ UNCHANGED <<pol, violations, exitCode>>
       ELSE IF ~given[1].ok
       THEN /\ pc' = "failed"
            /\ exitCode' = 1
            /\ UNCHANGED <<pol, violations>>
       ELSE /\ pol' = Ptr(given[1].policy)
            /\ violations' = Evaluate(given[1].policy, result)
            /\ pc' = "report"
            /\ UNCHANGED exitCode
    /\ UNCHANGED <<strict, file1, file2, comps1, comps2, warnings, result, stdout,
                   arg, ret>>

hasDiff(res) == Len(res.Added) > 0 \/ Len(res.Removed) > 0 \/ Len(res.Changed) > 0

\* opts.Format: the cases of the output switch, "text" standing for its default
Formats == {"text", "json", "sarif", "junit", "markdown", "patch"}

\* The cases that encode straight onto os.Stdout with a json.Encoder, whose
\* Encode returns the error of the write.  junit and patch marshal plain
\* structs in memory and print with fmt.Println, as markdown and text do:
\* nothing there yields an error.
StdoutEncoded == {"json", "sarif"}

\* The output switch, then "Exit with error if there are differences OR
\* policy errors".  err: the write onto os.Stdout failed.
ReportAndExit ==
    /\ pc = "report"
    /\ \E format \in Formats, err \in BOOLEAN :
          /\ err => format \in StdoutEncoded
          /\ stdout' = Ptr([Format |-> format, Err |-> err])
          /\ IF err
             THEN /\ pc' = "failed"
                  /\ exitCode' = 1
             ELSE /\ pc' = "exited"
                  /\ exitCode' = IF hasDiff(result) \/ HasErrors(violations)
                                 THEN 1 ELSE 0
    /\ UNCHANGED <<strict, file1, file2, pol, comps1, comps2, warnings, result,
                   violations, arg, ret>>

(***************************************************************************)
(* Harness for computeComponentID.                                         *)
(***************************************************************************)
PURLs ==
    { EmptyStr,
      <<"p", "@", "1">>,                  \* name@version
      <<"p", "@", "1", "?", "a", "#", "b">>,
      <<"@", "p", "/", "x", "@", "2">>,   \* scoped name: two '@'
      <<"#", "b">> }                      \* nothing left after normalization

InputCPEs ==
    { <<"c","p","e",":","2",".","3",":","a",":","v",":","p",":","1">>,
      <<"c","p","e",":","2",".","3",":","a",":","*",":","p",":","1">>,
      <<"c","p","e",":","/","a",":","h",":","s",":","2">>,
      <<"c","p","e",":","/","a",":",":","s">>,
      <<"x">> }

IdentityInputs ==
    { [Component EXCEPT !.PURL = p, !.CPEs = cs, !.BOMRef = b, !.SPDXID = s,
                        !.Namespace = n, !.Name = nm] :
        p \in PURLs, cs \in SeqsUpTo(InputCPEs, MaxCPEs),
        b \in {EmptyStr, <<"b">>}, s \in {EmptyStr, <<"s">>},
        n \in {EmptyStr, <<"n">>}, nm \in {EmptyStr, <<"x">>} }

InitIdentity ==
    /\ pc = "call"
    /\ arg \in IdentityInputs
    /\ ret = EmptyStr
    /\ MainIdle

CallComputeComponentID ==
    /\ pc = "call"
    /\ ret' = computeComponentID(arg)
    /\ pc' = "returned"
    /\ UNCHANGED <<arg, mainVars>>

NextIdentity == CallComputeComponentID

SpecIdentity == InitIdentity /\ [][NextIdentity]_vars

(***************************************************************************)
(* C5.  The identity is decided by the first identifier present in the     *)
(* order PURL, parseable CPE, bom_ref, spdx_id, namespace, name: it is the *)
(* normalized PURL when there is a PURL; else cpe:<vendor>:<product> of    *)
(* the first CPE of the list that parses; else ref:<bom_ref>; else         *)
(* ref:<spdx_id>; else <namespace>/<name>; else name.  Every component of  *)
(* the input set that agrees with it up to and including the deciding      *)
(* identifier gets the same identity.                                      *)
(***************************************************************************)
Parseable(c) == {i \in 1..Len(c.CPEs) : normalizeCPE(c.CPEs[i]) # EmptyStr}
FirstParseable(c) == CHOOSE i \in Parseable(c) : \A j \in Parseable(c) : i <= j

\* 1..6: the level of the precedence chain that decides c's identity
Level(c) ==
    IF c.PURL # EmptyStr THEN 1
    ELSE IF Parseable(c) # {} THEN 2
    ELSE IF c.BOMRef # EmptyStr THEN 3
    ELSE IF c.SPDXID # EmptyStr THEN 4
    ELSE IF c.Namespace # EmptyStr THEN 5
    ELSE 6

ExpectedIdentity(c) ==
    CASE Level(c) = 1 -> normalizePURL(c.PURL)
      [] Level(c) = 2 -> normalizeCPE(c.CPEs[FirstParseable(c)])
      [] Level(c) = 3 -> <<"r", "e", "f", ":">> \o c.BOMRef
      [] Level(c) = 4 -> <<"r", "e", "f", ":">> \o c.SPDXID
      [] Level(c) = 5 -> c.Namespace \o <<"/">> \o c.Name
      [] Level(c) = 6 -> c.Name

\* d agrees with c on every identifier up to the level that decides c
AgreeUpTo(c, d) ==
    /\ Level(d) = Level(c)
    /\ Level(c) = 1 => d.PURL = c.PURL
    /\ Level(c) = 2 => /\ Len(d.CPEs) >= FirstParseable(c)
                       /\ SubSeq(d.CPEs, 1, FirstParseable(c))
                            = SubSeq(c.CPEs, 1, FirstParseable(c))
    /\ Level(c) = 3 => d.BOMRef = c.BOMRef
    /\ Level(c) = 4 => d.SPDXID = c.SPDXID
    /\ Level(c) >= 5 => d.Namespace = c.Namespace /\ d.Name = c.Name

\* c with its CPE list cut, kept or extended and every other identifier but
\* the PURL replaced
Variants(c) ==
    { [c EXCEPT !.CPEs = cs, !.BOMRef = b, !.SPDXID = s, !.Namespace = n,
                !.Name = nm] :
        cs \in {<<>>, c.CPEs,
                c.CPEs \o <<(<<"c","p","e",":","/","a",":","h",":","s",":","2">>)>>},
        b \in {EmptyStr, <<"b">>, <<"c">>}, s \in {EmptyStr, <<"s">>},
        n \in {EmptyStr, <<"n">>}, nm \in {EmptyStr, <<"x">>} }

C5_IdentityPrecedence ==
    pc = "returned" =>
        /\ ret = ExpectedIdentity(arg)
        /\ \A d \in Variants(arg) :
              AgreeUpTo(arg, d) => computeComponentID(d) = ret

\* no PURL, an unparseable CPE followed by a parseable one, and a bom_ref:
\* the second CPE decides
C5_Witness ==
    /\ pc = "returned"
    /\ arg.PURL = EmptyStr
    /\ Len(arg.CPEs) = 2
    /\ arg.CPEs[1] = <<"c","p","e",":","2",".","3",":","a",":","*",":","p",":","1">>
    /\ arg.CPEs[2] = <<"c","p","e",":","/","a",":","h",":","s",":","2">>
    /\ arg.BOMRef # EmptyStr
    /\ ret = <<"c", "p", "e", ":", "h", ":", "s">>

(***************************************************************************)
(* Harness for ClassifyDrift: two components that share an identity.       *)
(***************************************************************************)
Versions == {<<"1">>, <<"2">>}
LicenseNames == {<<"M">>, <<"A">>}

\* hash maps over two algorithms: "s" absent or with one of two digests, "m"
\* absent or present
HashMaps ==
    { [a \in DOMAIN f |-> f[a]] :
        f \in UNION { [D -> {<<"a">>, <<"b">>}] : D \in SUBSET {<<"s">>, <<"m">>} } }

HashMapsSmall == {h \in HashMaps : <<"m">> \in DOMAIN h => h[<<"m">>] = <<"a">>}

DriftInputs ==
    { [Component EXCEPT !.ID = <<"a">>, !.Name = <<"a">>, !.Version = v,
                        !.Licenses = l, !.Hashes = h] :
        v \in Versions, l \in SeqsUpTo(LicenseNames, MaxLicenses),
        h \in HashMapsSmall }

InitDrift ==
    /\ pc = "call"
    /\ arg \in [before : DriftInputs, after : DriftInputs]
    /\ ret = EmptyStr
    /\ MainIdle

CallClassifyDrift ==
    /\ pc = "call"
    /\ ret' = ClassifyDrift(arg.before, arg.after)
    /\ pc' = "returned"
    /\ UNCHANGED <<arg, mainVars>>

NextDrift == CallClassifyDrift

SpecDrift == InitDrift /\ [][NextDrift]_vars

(***************************************************************************)
(* C1.  ClassifyDrift returns integrity iff the hash maps differ and the   *)
(* versions are equal; version iff the versions differ; metadata iff       *)
(* hashes and version are equal and the license lists differ when compared *)
(* order-independently (as multisets); none iff all three are equal.       *)
(***************************************************************************)
Count(slice, x) == Cardinality({i \in 1..Len(slice) : slice[i] = x})

SameLicenses(b, a) ==
    \A x \in Range(b.Licenses) \cup Range(a.Licenses) :
        Count(b.Licenses, x) = Count(a.Licenses, x)

C1_DriftTable ==
    pc = "returned" =>
        LET b == arg.before
            a == arg.after
            hashesDiffer == b.Hashes # a.Hashes
            versionsDiffer == b.Version # a.Version
        IN /\ ret.Type = "integrity" <=> (hashesDiffer /\ ~versionsDiffer)
           /\ ret.Type = "version" <=> versionsDiffer
           /\ ret.Type = "metadata" <=>
                 (~hashesDiffer /\ ~versionsDiffer /\ ~SameLicenses(b, a))
           /\ ret.Type = "none" <=>
                 (~hashesDiffer /\ ~versionsDiffer /\ SameLicenses(b, a))

(***************************************************************************)
(* Inputs of a two-file run.                                               *)
(***************************************************************************)
Sha(x) == [algo \in {<<"s">>} |-> x]

Pkg(id, version, hashes, licenses) ==
    [Component EXCEPT !.ID = id, !.Name = id, !.Version = version,
                      !.Hashes = hashes, !.Licenses = licenses]

Node(id, deps) == [Component EXCEPT !.ID = id, !.Name = id, !.Dependencies = deps]

\* what a file may hold of the package "a": nothing; the package; the same
\* version with another digest; another version; another license; the same
\* license written twice ("M" and " M"); the package at two versions
PkgA ==
    LET id == <<"a">> IN
    { <<>>,
      <<Pkg(id, <<"1">>, Sha(<<"a">>), <<(<<"M">>)>>)>>,
      <<Pkg(id, <<"1">>, Sha(<<"b">>), <<(<<"M">>)>>)>>,
      <<Pkg(id, <<"2">>, Sha(<<"a">>), <<(<<"M">>)>>)>>,
      <<Pkg(id, <<"1">>, Sha(<<"a">>), <<(<<"A">>)>>)>>,
      <<Pkg(id, <<"1">>, Sha(<<"a">>), <<(<<"M">>), (<<" ", "M">>)>>)>>,
      <<Pkg(id, <<"1">>, Sha(<<"a">>), <<(<<"M">>)>>),
        Pkg(id, <<"2">>, Sha(<<"a">>), <<(<<"M">>)>>)>> }

\* and of the package "b"
PkgB ==
    LET id == <<"b">> IN
    { <<>>,
      <<Pkg(id, <<"1">>, Sha(<<"a">>), <<>>)>>,
      <<Pkg(id, <<"1">>, Sha(<<"b">>), <<>>)>>,
      <<[Pkg(id, <<"2">>, NoHashes, <<>>) EXCEPT !.Supplier = <<"s">>]>> }

\* files that declare dependencies: app "a", express "e", lodash "l",
\* underscore "u"
GraphFiles ==
    LET a == <<"a">>  e == <<"e">>  l == <<"l">>  u == <<"u">> IN
    { <<Node(a, <<e>>), Node(e, <<>>)>>,
      <<Node(a, <<e>>), Node(e, <<l>>), Node(l, <<>>)>>,
      <<Node(a, <<e>>), Node(e, <<l>>), Node(l, <<u>>), Node(u, <<>>)>>,
      <<Node(a, <<e>>), Node(e, <<l>>), Node(l, <<a>>)>>,
      <<Node(a, <<e, l>>), Node(e, <<l>>), Node(l, <<>>)>>,
      <<Node(a, <<e>>), Node(e, <<>>), Node(l, <<>>)>> }

Files ==
    {[ok |-> FALSE, comps |-> <<>>]}
    \cup {[ok |-> TRUE, comps |-> pa \o pb] : pa \in PkgA, pb \in PkgB}
    \cup {[ok |-> TRUE, comps |-> g] : g \in GraphFiles}

Limits == 0..MaxLimit

Policies ==
    { [NoopPolicy EXCEPT !.MaxAdded = x, !.MaxRemoved = y, !.MaxChanged = z] :
        x \in Limits, y \in Limits, z \in Limits }
    \cup { [NoopPolicy EXCEPT !.MaxDepth = d] : d \in 1..(MaxLimit + 2) }
    \cup { [NoopPolicy EXCEPT !.DenyIntegrityDrift = TRUE],
           [NoopPolicy EXCEPT !.MaxAdded = -1, !.MaxRemoved = -1, !.MaxChanged = -1],
           [NoopPolicy EXCEPT !.DenyDuplicates = TRUE],
           [NoopPolicy EXCEPT !.RequireLicenses = TRUE],
           [NoopPolicy EXCEPT !.DenyLicenses = <<(<<"M">>)>>],
           [NoopPolicy EXCEPT !.WarnSupplierChange = TRUE],
           [NoopPolicy EXCEPT !.WarnNewTransitive = TRUE],
           [NoopPolicy EXCEPT !.MaxAdded = 1, !.MaxChanged = 1,
                              !.DenyIntegrityDrift = TRUE, !.MaxDepth = 2,
                              !.WarnSupplierChange = TRUE,
                              !.WarnNewTransitive = TRUE] }

PolicyFiles ==
    {Nil, Ptr([ok |-> FALSE, policy |-> NoopPolicy])}
    \cup {Ptr([ok |-> TRUE, policy |-> p]) : p \in Policies}

Init ==
    /\ pc = "parse1"
    /\ strict \in BOOLEAN
    /\ file1 \in Files
    /\ file2 \in Files
    /\ pol = Nil
    /\ comps1 = <<>> /\ comps2 = <<>> /\ warnings = <<>>
    /\ result = EmptyResult
    /\ violations = <<>>
    /\ stdout = Nil
    /\ exitCode = -1
    /\ arg = <<>> /\ ret = <<>>

Next ==
    \/ ParseFile1
    \/ ParseFile2
    \/ Normalize
    \/ Diff
    \/ \E given \in PolicyFiles : EvaluatePolicy(given)
    \/ ReportAndExit

Spec == Init /\ [][Next]_vars

(***************************************************************************)
(* Harness for DiffComponents: any two lists, duplicated identities         *)
(* allowed, and any two single components with one identity.               *)
(***************************************************************************)
ListElements ==
    { Pkg(id, v, NoHashes, <<>>) : id \in {<<"a">>, <<"b">>}, v \in Versions }

DiffInputs ==
    [before : SeqsUpTo(ListElements, MaxComps), after : SeqsUpTo(ListElements, MaxComps)]
    \cup {[before |-> <<x.before>>, after |-> <<x.after>>] :
            x \in [before : DriftInputs, after : DriftInputs]}

InitDiff ==
    /\ pc = "call"
    /\ arg \in DiffInputs
    /\ ret = EmptyResult
    /\ MainIdle

CallDiffComponents ==
    /\ pc = "call"
    /\ \E orders \in DiffOrders(arg.before, arg.after) :
          ret' = DiffComponents(arg.before, arg.after, orders)
    /\ pc' = "returned"
    /\ UNCHANGED <<arg, mainVars>>

NextDiff == CallDiffComponents

SpecDiff == InitDiff /\ [][NextDiff]_vars

(***************************************************************************)
(* Harness for DiffDependencyGraphs: any two graphs over three nodes with  *)
(* at most MaxEdges edges each (dangling edges, self-edges and cycles      *)
(* included), a three-node cycle and the chain app -> express -> lodash -> *)
(* underscore.                                                             *)
(***************************************************************************)
Nodes == {<<"a">>, <<"b">>, <<"c">>}

GraphOf(keys, edges) ==
    [n \in keys |-> SortStrings(SetToSeq({e[2] : e \in {x \in edges : x[1] = n}}))]

GraphsOfKeys(keys) ==
    { GraphOf(keys, edges) :
        edges \in {E \in SUBSET (keys \X Nodes) : Cardinality(E) <= MaxEdges} }

\* two roots a and b over one target d: a -> d, b -> c -> d, and what is left
\* of them without some of the edges
SharedTargetGraphs ==
    { GraphOf(Nodes \cup {<<"d">>}, edges) :
        edges \in SUBSET {<<(<<"a">>), (<<"d">>)>>, <<(<<"b">>), (<<"c">>)>>,
                          <<(<<"c">>), (<<"d">>)>>} }

Graphs ==
    UNION {GraphsOfKeys(keys) : keys \in SUBSET Nodes}
    \cup {BuildDependencyGraph(g) : g \in GraphFiles}
    \cup SharedTargetGraphs

InitGraph ==
    /\ pc = "call"
    /\ arg \in [before : Graphs, after : Graphs]
    /\ ret = <<>>
    /\ MainIdle

CallDiffDependencyGraphs ==
    /\ pc = "call"
    /\ \E afterRoots \in RootOrders(arg.after), beforeRoots \in RootOrders(arg.before) :
          ret' = DiffDependencyGraphs(arg.before, arg.after, afterRoots, beforeRoots)
    /\ pc' = "returned"
    /\ UNCHANGED <<arg, mainVars>>

NextGraph == CallDiffDependencyGraphs

SpecGraph == InitGraph /\ [][NextGraph]_vars

(***************************************************************************)
(* Harness for policy.Evaluate: every combination of the ten rules, on     *)
(* results of DiffComponents that trip several rules at once and on        *)
(* results DiffComponents does not build (Evaluate is exported).           *)
(***************************************************************************)
RichBefore ==
    <<Pkg(<<"a">>, <<"1">>, Sha(<<"a">>), <<(<<"M">>)>>),
      Pkg(<<"b">>, <<"1">>, NoHashes, <<>>),
      Node(<<"h">>, <<(<<"e">>)>>),
      Node(<<"e">>, <<>>),
      Node(<<"l">>, <<>>),
      Pkg(<<"r">>, <<"1">>, NoHashes, <<(<<"M">>)>>)>>

RichAfter ==
    <<Pkg(<<"a">>, <<"1">>, Sha(<<"b">>), <<(<<"M">>)>>),
      [Pkg(<<"b">>, <<"2">>, NoHashes, <<>>) EXCEPT !.Supplier = <<"s">>],
      Node(<<"h">>, <<(<<"e">>)>>),
      Node(<<"e">>, <<(<<"l">>)>>),
      Node(<<"l">>, <<(<<"u">>)>>),
      Node(<<"u">>, <<>>),
      Pkg(<<"n">>, <<"1">>, NoHashes, <<(<<"M">>), (<<"A">>), (<<"M">>)>>),
      Pkg(<<"d">>, <<"1">>, NoHashes, <<(<<"m">>)>>),
      Pkg(<<"d">>, <<"2">>, NoHashes, <<(<<"m">>)>>)>>

EvalPairs ==
    { <<RichBefore, RichAfter>>, <<RichAfter, RichBefore>>,
      <<RichBefore, RichBefore>>, <<(<<>>), (<<>>)>>,
      <<(<<>>), RichBefore>> }

DiffResultsOf(before, after) ==
    {DiffComponents(before, after, orders) : orders \in DiffOrders(before, after)}

\* a result with its summaries taken away
WithoutSummaries(res) ==
    [res EXCEPT !.DriftSummary = Nil,
                !.Dependencies =
                    IF res.Dependencies = Nil THEN Nil
                    ELSE Ptr([res.Dependencies[1] EXCEPT !.DepthSummary = Nil])]

EvalResults ==
    LET built == UNION {DiffResultsOf(x[1], x[2]) : x \in EvalPairs}
    IN built \cup {WithoutSummaries(res) : res \in built}

EvalPolicies ==
    [MaxAdded : {0, 1}, MaxRemoved : {0, 1}, MaxChanged : {0, 1},
     DenyLicenses : {<<>>, <<(<<"M">>)>>, <<(<<"M">>), (<<"M">>)>>,
                     <<(<<"m">>), (<<"A">>)>>},
     RequireLicenses : BOOLEAN, DenyDuplicates : BOOLEAN,
     DenyIntegrityDrift : BOOLEAN, MaxDepth : {0, 2, 3},
     WarnSupplierChange : BOOLEAN, WarnNewTransitive : BOOLEAN]

InitEvaluate ==
    /\ pc = "call"
    /\ arg \in [policy : EvalPolicies, result : EvalResults]
    /\ ret = <<>>
    /\ MainIdle

CallEvaluate ==
    /\ pc = "call"
    /\ ret' = Evaluate(arg.policy, arg.result)
    /\ pc' = "returned"
    /\ UNCHANGED <<arg, mainVars>>

NextEvaluate == CallEvaluate

SpecEvaluate == InitEvaluate /\ [][NextEvaluate]_vars


(***************************************************************************)
(* C2.  In a two-file run that parsed both inputs, loaded its policy (if   *)
(* any) and wrote its report without an error of the encoder, the exit     *)
(* status is 1 iff added, removed or changed is not empty or some          *)
(* violation has severity error, and 0 otherwise: warning violations,      *)
(* parse warnings and changes of the duplicates or of the dependency graph *)
(* alone leave it 0.                                                       *)
(***************************************************************************)
DiffListsEmpty ==
    Len(result.Added) + Len(result.Removed) + Len(result.Changed) = 0

SomeViolationOf(severity) ==
    \E i \in 1..Len(violations) : violations[i].Severity = severity

\* the process is gone, and it went as far as the output switch
ExitedAfterLoading == exitCode # -1 /\ stdout # Nil

ExitsOneIffDiffOrError ==
    /\ exitCode \in {0, 1}
    /\ exitCode = 1 <=> (~DiffListsEmpty \/ SomeViolationOf("error"))

C2_ExitStatus ==
    (ExitedAfterLoading /\ ~stdout[1].Err) => ExitsOneIffDiffOrError

\* exit 0 with a parse warning, a warning violation and a change of the
\* dependency graph
C2_Witness ==
    /\ pc = "exited"
    /\ exitCode = 0
    /\ SomeViolationOf("warning")
    /\ result.Dependencies # Nil
    /\ Len(result.Dependencies[1].TransitiveNew) > 0

\* exit 1 by an error violation alone
C2_WitnessPolicyError ==
    /\ pc = "exited"
    /\ exitCode = 1
    /\ DiffListsEmpty
    /\ SomeViolationOf("error")

(***************************************************************************)
(* C2 as the specification has it: in a two-file run that parsed both      *)
(* inputs (here: without as much as a parse warning) and loaded its policy *)
(* (if any), whatever became of the report, the exit status is 1 iff       *)
(* added, removed or changed is not empty or some violation has severity   *)
(* error.                                                                  *)
(***************************************************************************)
C2_ExitStatusWhateverTheOutput ==
    (ExitedAfterLoading /\ file1.ok /\ file2.ok) => ExitsOneIffDiffOrError

(***************************************************************************)
(* C8.  For each of max_added, max_removed, max_changed the evaluation     *)
(* emits exactly one error violation of that rule when the limit is        *)
(* greater than 0 and the list is strictly longer than the limit, and none *)
(* otherwise (limit 0, or a list as long as the limit).                    *)
(***************************************************************************)
ViolationsOf(rule) == SelectSeq(violations, LAMBDA v : v.Rule = rule)

Evaluated == pc \in {"report", "exited"} /\ pol # Nil

LimitHolds(rule, limit, list) ==
    /\ Len(ViolationsOf(rule)) = IF limit > 0 /\ Len(list) > limit THEN 1 ELSE 0
    /\ \A i \in 1..Len(ViolationsOf(rule)) : ViolationsOf(rule)[i].Severity = "error"

C8_Limits ==
    Evaluated =>
        /\ LimitHolds("max_added", pol[1].MaxAdded, result.Added)
        /\ LimitHolds("max_removed", pol[1].MaxRemoved, result.Removed)
        /\ LimitHolds("max_changed", pol[1].MaxChanged, result.Changed)

\* two added over a limit of 1, two changed at a limit of 2, one removed at
\* limit 0
C8_Witness ==
    /\ Evaluated
    /\ pol[1].MaxAdded = 1 /\ Len(result.Added) = 2
    /\ Len(ViolationsOf("max_added")) = 1
    /\ pol[1].MaxRemoved = 0 /\ Len(result.Removed) = 0
    /\ pol[1].MaxChanged = 0

C8_WitnessAtLimit ==
    /\ Evaluated
    /\ pol[1].MaxChanged = 2 /\ Len(result.Changed) = 2
    /\ Len(ViolationsOf("max_changed")) = 0

(***************************************************************************)
(* C9.  With deny_integrity_drift set, the evaluation of a result of       *)
(* DiffComponents emits exactly one error violation deny_integrity_drift   *)
(* for each entry of changed whose drift type is integrity, as many as     *)
(* drift_summary.integrity_drift, and none for the other entries; without  *)
(* the flag it emits none.                                                 *)
(***************************************************************************)
IntegrityEntries ==
    SelectSeq(result.Changed, LAMBDA c : c.Drift[1].Type = "integrity")

IntegrityDriftCount ==
    IF result.DriftSummary = Nil THEN 0 ELSE result.DriftSummary[1].IntegrityDrift

C9_DenyIntegrityDrift ==
    Evaluated =>
        LET vs == ViolationsOf("deny_integrity_drift")
        IN IF pol[1].DenyIntegrityDrift
           THEN /\ Len(vs) = Len(IntegrityEntries)
                /\ Len(vs) = IntegrityDriftCount
                /\ \A i \in 1..Len(vs) :
                      /\ vs[i].Severity = "error"
                      /\ vs[i].Message = <<IntegrityEntries[i].Name>>
           ELSE Len(vs) = 0

\* the flag is set, two entries changed by integrity and none otherwise
C9_Witness ==
    /\ Evaluated
    /\ pol[1].DenyIntegrityDrift
    /\ Len(result.Changed) = 2
    /\ Len(IntegrityEntries) = 2
    /\ Len(ViolationsOf("deny_integrity_drift")) = 2

(***************************************************************************)
(* C10.  With max_depth > 0 the evaluation emits at most one max_depth     *)
(* violation: exactly one, of severity error, listing the entries of       *)
(* transitive_new of depth >= max_depth and no other, when there is such   *)
(* an entry, and none when every entry is less deep.  For before = {app -> *)
(* express}, after = {app -> express -> lodash -> underscore} and          *)
(* max_depth = 3 the one violation cites underscore and not lodash.        *)
(***************************************************************************)
TransitiveNewOfResult ==
    IF result.Dependencies = Nil THEN <<>> ELSE result.Dependencies[1].TransitiveNew

DeepEntries(maxDepth) ==
    SelectSeq(TransitiveNewOfResult, LAMBDA td : td.Depth >= maxDepth)

ChainBefore == <<Node(<<"a">>, <<(<<"e">>)>>), Node(<<"e">>, <<>>)>>
ChainAfter ==
    <<Node(<<"a">>, <<(<<"e">>)>>), Node(<<"e">>, <<(<<"l">>)>>),
      Node(<<"l">>, <<(<<"u">>)>>), Node(<<"u">>, <<>>)>>

ChainRun ==
    /\ Evaluated
    /\ file1.ok /\ file1.comps = ChainBefore
    /\ file2.ok /\ file2.comps = ChainAfter
    /\ pol[1].MaxDepth = 3

C10_MaxDepth ==
    /\ (Evaluated /\ pol[1].MaxDepth > 0) =>
          LET vs == ViolationsOf("max_depth")
              deep == DeepEntries(pol[1].MaxDepth)
          IN /\ Len(vs) = IF Len(deep) > 0 THEN 1 ELSE 0
             /\ \A i \in 1..Len(vs) :
                   /\ vs[i].Severity = "error"
                   /\ vs[i].Message[2]
                        = [j \in 1..Len(deep) |-> <<deep[j].Target, deep[j].Depth>>]
    /\ ChainRun =>
          /\ Len(ViolationsOf("max_depth")) = 1
          /\ ViolationsOf("max_depth")[1].Message[2] = <<(<<(<<"u">>), 3>>)>>

C10_Witness ==
    /\ ChainRun
    /\ Len(TransitiveNewOfResult) = 2
    /\ Len(ViolationsOf("max_depth")) = 1

(***************************************************************************)
(* C3.  For any two lists B and A, identities repeated or not,             *)
(* DiffComponents returns in added exactly one entry per identity of A     *)
(* that is not in B, the first component of A with it; in removed exactly  *)
(* one entry per identity of B that is not in A, the first of B; in        *)
(* changed only identities of both.  The three lists share no identity and *)
(* each is strictly ascending by identity.                                 *)
(***************************************************************************)
IDsOf(list) == {list[i].ID : i \in 1..Len(list)}

FirstIndexOf(list, id) ==
    CHOOSE i \in 1..Len(list) :
        list[i].ID = id /\ \A j \in 1..(i - 1) : list[j].ID # id

OneFirstPerID(out, here, there) ==
    /\ IDsOf(out) = IDsOf(here) \ IDsOf(there)
    /\ \A i, j \in 1..Len(out) : out[i].ID = out[j].ID => i = j
    /\ \A i \in 1..Len(out) : out[i] = here[FirstIndexOf(here, out[i].ID)]

StrictlyAscending(list) ==
    \A i \in 1..(Len(list) - 1) : StrLess(list[i].ID, list[i + 1].ID)

C3_DiffStructure ==
    pc = "returned" =>
        /\ OneFirstPerID(ret.Added, arg.after, arg.before)
        /\ OneFirstPerID(ret.Removed, arg.before, arg.after)
        /\ IDsOf(ret.Changed) \subseteq IDsOf(arg.before) \cap IDsOf(arg.after)
        /\ StrictlyAscending(ret.Added)
        /\ StrictlyAscending(ret.Removed)
        /\ StrictlyAscending(ret.Changed)
        /\ IDsOf(ret.Added) \cap IDsOf(ret.Removed) = {}
        /\ IDsOf(ret.Added) \cap IDsOf(ret.Changed) = {}
        /\ IDsOf(ret.Removed) \cap IDsOf(ret.Changed) = {}

\* A holds one new identity twice, at two versions: added has the first only
C3_Witness ==
    /\ pc = "returned"
    /\ Len(arg.after) = 2
    /\ arg.after[1].ID = arg.after[2].ID
    /\ arg.after[1].Version # arg.after[2].Version
    /\ Len(arg.before) > 0
    /\ ret.Added = <<arg.after[1]>>
    /\ Len(ret.Removed) = 1

(***************************************************************************)
(* C4.  An identity of both inputs is in changed iff, between the first    *)
(* component of each side with it, the versions differ, or the license     *)
(* lists differ when compared without regard to order, or some hash        *)
(* algorithm of both sides has two values; a component equal on the three  *)
(* is never in changed.                                                    *)
(***************************************************************************)
DiffersOnCriteria(b, a) ==
    \/ b.Version # a.Version
    \/ ~SameLicenses(b, a)
    \/ \E algo \in DOMAIN b.Hashes \cap DOMAIN a.Hashes : b.Hashes[algo] # a.Hashes[algo]

C4_ChangedIff ==
    pc = "returned" =>
        \A id \in IDsOf(arg.before) \cap IDsOf(arg.after) :
            id \in IDsOf(ret.Changed)
              <=> DiffersOnCriteria(arg.before[FirstIndexOf(arg.before, id)],
                                    arg.after[FirstIndexOf(arg.after, id)])

\* the two sides differ by a hash algorithm one of them lacks, and by nothing
\* the comparator looks at: not changed
C4_Witness ==
    /\ pc = "returned"
    /\ Len(arg.before) = 1 /\ Len(arg.after) = 1
    /\ arg.before[1].ID = arg.after[1].ID
    /\ DOMAIN arg.before[1].Hashes # DOMAIN arg.after[1].Hashes
    /\ ~DiffersOnCriteria(arg.before[1], arg.after[1])
    /\ Len(ret.Changed) = 0

\* the later duplicate differs from the other side, the first does not
C4_WitnessFirstOnly ==
    /\ pc = "returned"
    /\ Len(arg.before) = 2 /\ Len(arg.after) = 1
    /\ IDsOf(arg.before) = IDsOf(arg.after)
    /\ arg.before[1].Version = arg.after[1].Version
    /\ arg.before[2].Version # arg.after[1].Version
    /\ Len(ret.Changed) = 0

(***************************************************************************)
(* C6.  For any two graphs the targets of transitive_new are exactly the   *)
(* identities t such that, for some root r of the after graph (any key     *)
(* when it has no root), t is reachable from r in the after graph, is not  *)
(* reachable from r in the before graph, and the shortest path from r to t *)
(* in the after graph is longer than one edge; each is listed once.        *)
(* transitive_lost is the same with the graphs exchanged.  Reachable is    *)
(* the specification's: the source itself is not among what it reaches.    *)
(***************************************************************************)
Successors(graph, nodes) == UNION {Range(Deps(graph, n)) : n \in nodes}

AllNodes(graph) == DOMAIN graph \cup Successors(graph, DOMAIN graph)

\* what a path of 1..k edges from r ends on
RECURSIVE Within(_, _, _)
Within(graph, r, k) ==
    IF k = 0 THEN {}
    ELSE Within(graph, r, k - 1)
           \cup Successors(graph, {r} \cup Within(graph, r, k - 1))

ReachableFrom(graph, r) == Within(graph, r, Cardinality(AllNodes(graph))) \ {r}

Distance(graph, r, t) ==
    CHOOSE k \in 1..Cardinality(AllNodes(graph)) :
        t \in Within(graph, r, k) /\ t \notin Within(graph, r, k - 1)

RootsOrAll(graph) ==
    LET roots == {n \in DOMAIN graph : n \notin Successors(graph, DOMAIN graph)}
    IN IF roots = {} THEN DOMAIN graph ELSE roots

ExpectedTransitive(here, there) ==
    { t \in AllNodes(here) :
        \E r \in RootsOrAll(here) :
            /\ t \in ReachableFrom(here, r)
            /\ t \notin ReachableFrom(there, r)
            /\ Distance(here, r, t) > 1 }

ListsEachOnce(deps, targets) ==
    /\ {deps[i].Target : i \in 1..Len(deps)} = targets
    /\ Len(deps) = Cardinality(targets)

C6_TransitiveSets ==
    pc = "returned" =>
        /\ ListsEachOnce(ret.TransitiveNew, ExpectedTransitive(arg.after, arg.before))
        /\ ListsEachOnce(ret.TransitiveLost, ExpectedTransitive(arg.before, arg.after))

\* a target one edge from one root and two from another, new from both, is
\* listed
C6_Witness ==
    /\ pc = "returned"
    /\ Cardinality(RootsOrAll(arg.after)) = 2
    /\ \E t \in AllNodes(arg.after) :
          /\ \E r \in RootsOrAll(arg.after) :
                /\ t \in ReachableFrom(arg.after, r) \ ReachableFrom(arg.before, r)
                /\ Distance(arg.after, r, t) = 1
          /\ \E i \in 1..Len(ret.TransitiveNew) : ret.TransitiveNew[i].Target = t

\* a lost target next to a new one
C6_WitnessLost ==
    /\ pc = "returned"
    /\ Len(ret.TransitiveLost) > 0
    /\ Len(ret.TransitiveNew) > 0

\* no root: the keys of a cycle stand in for them
C6_WitnessNoRoot ==
    /\ pc = "returned"
    /\ Len(FindRoots(arg.after)) = 0
    /\ Len(ret.TransitiveNew) > 1

(***************************************************************************)
(* C7.  In every result of DiffDependencyGraphs each entry of              *)
(* transitive_new and transitive_lost has depth >= 2 and depth = length of *)
(* its via path - 1; depth_summary is present iff transitive_new is not    *)
(* empty, and then depth_1 = 0, depth_2 counts the entries of depth 2 and  *)
(* depth_3_plus those of depth >= 3, so that depth_2 + depth_3_plus is the *)
(* length of transitive_new.                                               *)
(***************************************************************************)
DepthsAgree(deps) ==
    \A i \in 1..Len(deps) :
        deps[i].Depth >= 2 /\ deps[i].Depth = Len(deps[i].Via) - 1

NumOfDepth(deps, depths) == Cardinality({i \in 1..Len(deps) : deps[i].Depth \in depths})

C7_Depths ==
    pc = "returned" =>
        /\ DepthsAgree(ret.TransitiveNew)
        /\ DepthsAgree(ret.TransitiveLost)
        /\ ret.DepthSummary # Nil <=> Len(ret.TransitiveNew) > 0
        /\ ret.DepthSummary # Nil =>
              /\ ret.DepthSummary[1].Depth1 = 0
              /\ ret.DepthSummary[1].Depth2 = NumOfDepth(ret.TransitiveNew, {2})
              /\ ret.DepthSummary[1].Depth3Plus
                    = Len(ret.TransitiveNew) - NumOfDepth(ret.TransitiveNew, {0, 1, 2})
              /\ ret.DepthSummary[1].Depth2 + ret.DepthSummary[1].Depth3Plus
                    = Len(ret.TransitiveNew)

\* one new entry of depth 2 and one of depth 3, and a lost one
C7_Witness ==
    /\ pc = "returned"
    /\ NumOfDepth(ret.TransitiveNew, {2}) = 1
    /\ NumOfDepth(ret.TransitiveNew, {3}) = 1
    /\ ret.DepthSummary # Nil
    /\ ret.DepthSummary[1].Depth3Plus = 1

C7_WitnessLost ==
    /\ pc = "returned"
    /\ Len(ret.TransitiveLost) > 0
    /\ ret.DepthSummary = Nil

(***************************************************************************)
(* C11.  With a non-empty deny_licenses list the evaluation emits one      *)
(* error violation deny_licenses for each pair (added component, license   *)
(* entry of that component) whose license string is exactly an entry of    *)
(* deny_licenses, and none for the licenses of removed or changed          *)
(* components; with an empty deny_licenses it emits none.                  *)
(***************************************************************************)
RuleOf(vs, rule) == SelectSeq(vs, LAMBDA v : v.Rule = rule)

\* the pairs <<i, j>>: license entry j of added component i is denied
DeniedEntries(policy, res) ==
    { x \in UNION {{<<i, j>> : j \in 1..Len(res.Added[i].Licenses)} :
                     i \in 1..Len(res.Added)} :
        \E k \in 1..Len(policy.DenyLicenses) :
            policy.DenyLicenses[k] = res.Added[x[1]].Licenses[x[2]] }

C11_DenyLicenses ==
    pc = "returned" =>
        LET vs == RuleOf(ret, "deny_licenses")
            denied == DeniedEntries(arg.policy, arg.result)
        IN /\ Len(vs) = Cardinality(denied)
           /\ \A i \in 1..Len(vs) : vs[i].Severity = "error"
           /\ \A x \in denied :
                 LET name == arg.result.Added[x[1]].Name
                     lic == arg.result.Added[x[1]].Licenses[x[2]]
                 IN Cardinality({i \in 1..Len(vs) : vs[i].Message = <<name, lic>>})
                      = Cardinality({y \in denied :
                            /\ arg.result.Added[y[1]].Name = name
                            /\ arg.result.Added[y[1]].Licenses[y[2]] = lic})

\* one added component holds the denied license twice, a removed and a
\* changed one hold it too, another added one holds it in lower case
C11_Witness ==
    /\ pc = "returned"
    /\ arg.policy.DenyLicenses = <<(<<"M">>), (<<"M">>)>>
    /\ \E i \in 1..Len(arg.result.Added) :
          arg.result.Added[i].Licenses = <<(<<"M">>), (<<"A">>), (<<"M">>)>>
    /\ \E i \in 1..Len(arg.result.Added) : arg.result.Added[i].Licenses = <<(<<"m">>)>>
    /\ \E i \in 1..Len(arg.result.Removed) : arg.result.Removed[i].Licenses = <<(<<"M">>)>>
    /\ \E i \in 1..Len(arg.result.Changed) :
          arg.result.Changed[i].After.Licenses = <<(<<"M">>)>>
    /\ Len(RuleOf(ret, "deny_licenses")) = 2

(***************************************************************************)
(* C12.  The list Evaluate returns is ordered by rule in the order         *)
(* max_added, max_removed, max_changed, deny_licenses, require_licenses,   *)
(* deny_duplicates, deny_integrity_drift, max_depth, warn_supplier_change, *)
(* warn_new_transitive, for every policy and every DiffResult; so every    *)
(* violation of severity error precedes every one of severity warning, and *)
(* the all-default policy yields the empty list.                           *)
(***************************************************************************)
RuleOrder ==
    <<"max_added", "max_removed", "max_changed", "deny_licenses",
      "require_licenses", "deny_duplicates", "deny_integrity_drift", "max_depth",
      "warn_supplier_change", "warn_new_transitive">>

RuleRank(rule) == CHOOSE i \in 1..Len(RuleOrder) : RuleOrder[i] = rule

C12_RuleOrder ==
    pc = "returned" =>
        /\ \A i \in 1..Len(ret) : \E k \in 1..Len(RuleOrder) : RuleOrder[k] = ret[i].Rule
        /\ \A i, j \in 1..Len(ret) :
              i < j => /\ RuleRank(ret[i].Rule) <= RuleRank(ret[j].Rule)
                       /\ ~(ret[i].Severity = "warning" /\ ret[j].Severity = "error")
        /\ arg.policy = NoopPolicy => ret = <<>>

\* nine of the ten rules fire on one result, errors and warnings among them
C12_Witness ==
    /\ pc = "returned"
    /\ Cardinality({ret[i].Rule : i \in 1..Len(ret)}) = 9
    /\ \E i \in 1..Len(ret) : ret[i].Severity = "warning"
    /\ \E i \in 1..Len(ret) : ret[i].Severity = "error"
    /\ \E i \in 1..(Len(ret) - 1) : ret[i].Rule = ret[i + 1].Rule

\* the all-default policy on a result full of changes
C12_WitnessNoop ==
    /\ pc = "returned"
    /\ arg.policy = NoopPolicy
    /\ Len(arg.result.Added) > 1 /\ Len(arg.result.Changed) > 1
    /\ ret = <<>>

(***************************************************************************)
(* C13.  When the before list holds a duplicate group of an identity X     *)
(* with the versions {v1, v2} and the after list holds exactly one         *)
(* component of identity X, of version v2, the result of DiffComponents    *)
(* has duplicates.version_diff.versions_removed[X] = [v1], no new          *)
(* duplicate and no resolved duplicate of X; a group is in                 *)
(* resolved_duplicates only when the after list has no component of its    *)
(* identity at all.                                                        *)
(***************************************************************************)
VersionsOf(list, id) == {list[i].Version : i \in {j \in 1..Len(list) : list[j].ID = id}}

NumWithID(list, id) == Cardinality({i \in 1..Len(list) : list[i].ID = id})

\* before holds X at v1 and at v2 and nowhere else, after holds X once, at v2
ResolvedToOne(X, v1, v2) ==
    /\ NumWithID(arg.before, X) > 1
    /\ VersionsOf(arg.before, X) = {v1, v2} /\ v1 # v2
    /\ NumWithID(arg.after, X) = 1
    /\ VersionsOf(arg.after, X) = {v2}

C13_DuplicateResolution ==
    pc = "returned" =>
        /\ \A X \in IDsOf(arg.before) : \A v1, v2 \in VersionsOf(arg.before, X) :
              ResolvedToOne(X, v1, v2) =>
                /\ ret.Duplicates # Nil
                /\ ret.Duplicates[1].VersionDiff # Nil
                /\ LET d == ret.Duplicates[1].VersionDiff[1]
                   IN /\ X \in DOMAIN d.VersionsRemoved
                      /\ d.VersionsRemoved[X] = <<v1>>
                      /\ X \notin IDsOf(d.NewDuplicates)
                      /\ X \notin IDsOf(d.ResolvedDuplicates)
        /\ \A X \in IDsOf(arg.before) :
              (/\ Cardinality(VersionsOf(arg.before, X)) = 2
               /\ ret.Duplicates # Nil
               /\ ret.Duplicates[1].VersionDiff # Nil
               /\ X \in IDsOf(ret.Duplicates[1].VersionDiff[1].ResolvedDuplicates))
              => NumWithID(arg.after, X) = 0

(***************************************************************************)
(* Harness for DiffComponents called both ways round and on one list twice. *)
(***************************************************************************)
SymmetryInputs ==
    [before : SeqsUpTo(ListElements, MaxComps), after : SeqsUpTo(ListElements, MaxComps)]
    \cup {[before |-> x.comps, after |-> y.comps] : x \in Files, y \in Files}
    \cup {[before |-> x[1], after |-> x[2]] : x \in EvalPairs}

InitSymmetry ==
    /\ pc = "call"
    /\ arg \in SymmetryInputs
    /\ ret = <<>>
    /\ MainIdle

\* DiffComponents(B, A), then DiffComponents(A, B), then DiffComponents(B, B)
CallForward ==
    /\ pc = "call"
    /\ \E orders \in DiffOrders(arg.before, arg.after) :
          ret' = [forward |-> DiffComponents(arg.before, arg.after, orders)]
    /\ pc' = "forward"
    /\ UNCHANGED <<arg, mainVars>>

CallBackward ==
    /\ pc = "forward"
    /\ \E orders \in DiffOrders(arg.after, arg.before) :
          ret' = [forward |-> ret.forward,
                  backward |-> DiffComponents(arg.after, arg.before, orders)]
    /\ pc' = "backward"
    /\ UNCHANGED <<arg, mainVars>>

CallSame ==
    /\ pc = "backward"
    /\ \E orders \in DiffOrders(arg.before, arg.before) :
          ret' = [forward |-> ret.forward, backward |-> ret.backward,
                  same |-> DiffComponents(arg.before, arg.before, orders)]
    /\ pc' = "returned"
    /\ UNCHANGED <<arg, mainVars>>

NextSymmetry == CallForward \/ CallBackward \/ CallSame

SpecSymmetry == InitSymmetry /\ [][NextSymmetry]_vars

(***************************************************************************)
(* C14.  For any two lists B and A the components of                       *)
(* DiffComponents(B, A).added are those of DiffComponents(A, B).removed,   *)
(* the components of DiffComponents(B, A).removed are those of             *)
(* DiffComponents(A, B).added, and DiffComponents(X, X) has empty added,   *)
(* removed and changed and no dependency diff, for lists with repeated     *)
(* identities too.                                                         *)
(***************************************************************************)
C14_Symmetry ==
    pc = "returned" =>
        /\ Range(ret.forward.Added) = Range(ret.backward.Removed)
        /\ Range(ret.forward.Removed) = Range(ret.backward.Added)
        /\ ret.same.Added = <<>>
        /\ ret.same.Removed = <<>>
        /\ ret.same.Changed = <<>>
        /\ ret.same.Dependencies = Nil

\* something added and something removed, with an identity held twice at
\* two versions in the list that is diffed with itself
C14_Witness ==
    /\ pc = "returned"
    /\ Len(ret.forward.Added) > 0
    /\ Len(ret.forward.Removed) > 0
    /\ \E i, j \in 1..Len(arg.before) :
          /\ arg.before[i].ID = arg.before[j].ID
          /\ arg.before[i].Version # arg.before[j].Version

\* a list with dependencies diffed with itself
C14_WitnessGraph ==
    /\ pc = "returned"
    /\ \E i \in 1..Len(arg.before) : Len(arg.before[i].Dependencies) > 0
    /\ ret.forward.Dependencies # Nil
    /\ ret.same.Dependencies = Nil

(***************************************************************************)
(* Harness for NormalizeComponent, applied once and then to its own result. *)
(***************************************************************************)
NormLicenses ==
    { <<>>, <<" ">>, <<"m","i","t">>, <<"M","i","T">>, <<" ","M","I","T","\t">>,
      <<"N","O","N","E">>, <<" ","n","o","n","e">>,
      <<"u","N","k","N","O","w","N">>,
      <<"n","o","A","s","s","e","r","t","I","o","n">>,
      <<"n","o","n","e","x">>, <<" ","A"," ","b"," ">> }

NormInputs ==
    { [Component EXCEPT !.ID = x.ID, !.Name = x.Name, !.Version = x.Version,
                        !.PURL = x.PURL, !.BOMRef = x.BOMRef,
                        !.Language = x.Language, !.Licenses = x.Licenses] :
        x \in [ID : {EmptyStr, <<"x", " ">>},
               Name : {EmptyStr, <<" ", "A", "b">>, <<"\t">>},
               Version : {EmptyStr, <<" ", "1", " ">>},
               PURL : {EmptyStr, <<" ", "p", "@", "1", " ">>},
               BOMRef : {EmptyStr, <<"r", " ">>},
               Language : {EmptyStr, <<"h">>},
               Licenses : SeqsUpTo(NormLicenses, MaxLicenses)] }

InitNormalize ==
    /\ pc = "call"
    /\ arg \in NormInputs
    /\ ret = <<>>
    /\ MainIdle

CallNormalizeComponent ==
    /\ pc = "call"
    /\ ret' = [once |-> NormalizeComponent(arg)]
    /\ pc' = "once"
    /\ UNCHANGED <<arg, mainVars>>

CallNormalizeComponentAgain ==
    /\ pc = "once"
    /\ ret' = [once |-> ret.once, twice |-> NormalizeComponent(ret.once)]
    /\ pc' = "returned"
    /\ UNCHANGED <<arg, mainVars>>

NextNormalize == CallNormalizeComponent \/ CallNormalizeComponentAgain

SpecNormalize == InitNormalize /\ [][NextNormalize]_vars

(***************************************************************************)
(* C15.  NormalizeComponent is idempotent: for every component C, one with *)
(* an empty identity, an empty name, sentinel or blank licenses or "mit"   *)
(* in mixed case included, NormalizeComponent(NormalizeComponent(C)) is    *)
(* NormalizeComponent(C) on every field.                                   *)
(***************************************************************************)
C15_Idempotent == pc = "returned" => ret.twice = ret.once

\* no identity, a name and a version to trim, a blank license, a sentinel
\* with a space before it, and the first call changed the component
C15_Witness ==
    /\ pc = "returned"
    /\ arg.ID = EmptyStr /\ arg.PURL # EmptyStr
    /\ arg.Name = <<" ", "A", "b">>
    /\ arg.Licenses = <<(<<" ", "n", "o", "n", "e">>), (<<"M", "i", "T">>)>>
    /\ ret.once # arg
    /\ ret.once.ID # EmptyStr
    /\ ret.once.Licenses = <<(<<"M", "I", "T">>)>>

\* nothing to identify the component by: the identity stays empty
C15_WitnessEmpty ==
    /\ pc = "returned"
    /\ arg.ID = EmptyStr /\ ret.once.ID = EmptyStr
    /\ ret.once.Name = EmptyStr
    /\ Len(arg.Licenses) = 2 /\ ret.once.Licenses = <<>>

(***************************************************************************)
(* C16.  For every component C the license list of NormalizeComponent(C)   *)
(* has no entry that is empty or whose lower-cased form is noassertion,    *)
(* none or unknown; it is the trimmed licenses of C that are no sentinel,  *)
(* in their order in C, an entry whose lower-cased form is exactly mit     *)
(* written MIT and every other entry in the case it had.                   *)
(***************************************************************************)
Sentinels ==
    { <<"n","o","a","s","s","e","r","t","i","o","n">>, <<"n","o","n","e">>,
      <<"u","n","k","n","o","w","n">> }

Blank(c) == c = " " \/ c = "\t"

\* s without the blanks at its two ends
Unblanked(s) ==
    LET i == CHOOSE n \in 0..Len(s) :
                 /\ \A k \in 1..n : Blank(s[k])
                 /\ (n < Len(s) => ~Blank(s[n + 1]))
        j == CHOOSE n \in 0..Len(s) :
                 /\ \A k \in (n + 1)..Len(s) : Blank(s[k])
                 /\ (n > 0 => ~Blank(s[n]))
    IN IF i >= j THEN EmptyStr ELSE SubSeq(s, i + 1, j)

Lowered(s) ==
    [i \in 1..Len(s) |->
        CASE s[i] = "A" -> "a" [] s[i] = "E" -> "e" [] s[i] = "I" -> "i"
          [] s[i] = "M" -> "m" [] s[i] = "N" -> "n" [] s[i] = "O" -> "o"
          [] s[i] = "T" -> "t" [] OTHER -> s[i]]

\* the positions of lics whose trimmed form is a license
KeptPositions(lics) ==
    { i \in 1..Len(lics) :
        Unblanked(lics[i]) # EmptyStr /\ Lowered(Unblanked(lics[i])) \notin Sentinels }

C16_Licenses ==
    pc \in {"once", "returned"} =>
        LET out == ret.once.Licenses
            kept == KeptPositions(arg.Licenses)
        IN /\ \A i \in 1..Len(out) : out[i] # EmptyStr /\ Lowered(out[i]) \notin Sentinels
           /\ Len(out) = Cardinality(kept)
           /\ \A i \in 1..Len(out) :
                 \* the i-th kept position
                 LET p == CHOOSE q \in kept : Cardinality({r \in kept : r <= q}) = i
                     t == Unblanked(arg.Licenses[p])
                 IN out[i] = IF Lowered(t) = <<"m", "i", "t">> THEN <<"M", "I", "T">> ELSE t

\* a sentinel in capitals and one with a blank before it are dropped, mit in
\* mixed case is rewritten
C16_Witness ==
    /\ pc = "returned"
    /\ arg.Licenses = <<(<<"N", "O", "N", "E">>), (<<"M", "i", "T">>)>>
    /\ ret.once.Licenses = <<(<<"M", "I", "T">>)>>

\* an entry that only starts like a sentinel, and one with blanks inside,
\* keep their text
C16_WitnessKept ==
    /\ pc = "returned"
    /\ arg.Licenses = <<(<<" ", "A", " ", "b", " ">>), (<<"n", "o", "n", "e", "x">>)>>
    /\ ret.once.Licenses = <<(<<"A", " ", "b">>), (<<"n", "o", "n", "e", "x">>)>>

(***************************************************************************)
(* Harness for ingest: a Syft document's artifacts are parsed into         *)
(* components, which are then normalized as main does before the diff.     *)
(***************************************************************************)
\* comp.ToIdentity(): the fields the identity is computed from
ToIdentity(c) ==
    [Component EXCEPT !.PURL = c.PURL, !.CPEs = c.CPEs, !.BOMRef = c.BOMRef,
                      !.SPDXID = c.SPDXID, !.Namespace = c.Namespace, !.Name = c.Name]

NonEmpty(strs) == SelectSeq(strs, LAMBDA x : x # EmptyStr)

\* one artifact of the document; ok is whether its JSON decodes
ArtifactComponent(a) ==
    LET comp == [Component EXCEPT !.Name = a.Name, !.Version = a.Version,
                                  !.PURL = a.PURL,
                                  !.Licenses = NonEmpty(a.Licenses),
                                  !.CPEs = NonEmpty(a.CPEs)]
    IN [comp EXCEPT !.ID = computeComponentID(ToIdentity(comp))]

RECURSIVE ParseSyftWithInfo(_)
ParseSyftWithInfo(artifacts) ==
    IF artifacts = <<>> THEN <<>>
    ELSE IF ~Head(artifacts).ok THEN ParseSyftWithInfo(Tail(artifacts))
    ELSE <<ArtifactComponent(Head(artifacts))>> \o ParseSyftWithInfo(Tail(artifacts))

Artifacts ==
    {[ok |-> FALSE, Name |-> <<"a">>, Version |-> EmptyStr, PURL |-> EmptyStr,
      Licenses |-> <<>>, CPEs |-> <<>>]}
    \cup
    [ok : {TRUE},
     Name : {EmptyStr, <<"a">>},
     Version : {<<"1">>},
     PURL : {EmptyStr, <<"p", "@", "1">>, <<"@", "1">>, <<"#", "b">>},
     Licenses : {<<>>, <<EmptyStr, (<<"M">>)>>},
     CPEs : {<<>>, <<EmptyStr>>, <<(<<"x">>)>>,
             <<(<<"c","p","e",":","/","a",":","h",":","s",":","2">>)>>}]

InitIngest ==
    /\ pc = "ingest"
    /\ arg \in SeqsUpTo(Artifacts, MaxComps)
    /\ ret = <<>>
    /\ MainIdle

\* parseFileWithOptions on a readable Syft document: the warnings of the
\* options are left as they were
IngestSyft ==
    /\ pc = "ingest"
    /\ ret' = [comps |-> ParseSyftWithInfo(arg), warnings |-> warnings]
    /\ pc' = "parsed"
    /\ UNCHANGED <<arg, mainVars>>

NormalizeIngested ==
    /\ pc = "parsed"
    /\ ret' = [ret EXCEPT !.comps = NormalizeComponents(ret.comps)]
    /\ pc' = "normalized"
    /\ UNCHANGED <<arg, mainVars>>

NextIngest == IngestSyft \/ NormalizeIngested

SpecIngest == InitIngest /\ [][NextIngest]_vars

(***************************************************************************)
(* C17.  The identity of a component is the empty string only when its     *)
(* name is empty and it has no PURL, no parseable CPE, no bom_ref, no      *)
(* spdx_id and no namespace; ingest drops such a component and records a   *)
(* warning, so every component that reaches the differ after ingest and    *)
(* normalization has a non-empty identity.                                 *)
(***************************************************************************)
Unidentified(c) ==
    /\ c.Name = EmptyStr /\ c.PURL = EmptyStr /\ Parseable(c) = {}
    /\ c.BOMRef = EmptyStr /\ c.SPDXID = EmptyStr /\ c.Namespace = EmptyStr

Decoded == SelectSeq(arg, LAMBDA a : a.ok)

C17_EmptyIdentity ==
    pc = "normalized" =>
        /\ \A i \in 1..Len(Decoded) :
              LET c == ArtifactComponent(Decoded[i])
              IN computeComponentID(c) = EmptyStr => Unidentified(c)
        /\ \A i \in 1..Len(ret.comps) : ret.comps[i].ID # EmptyStr
        /\ Len(ret.comps) =
              Cardinality({i \in 1..Len(Decoded) : ~Unidentified(ArtifactComponent(Decoded[i]))})
        /\ Len(ret.warnings) =
              Cardinality({i \in 1..Len(Decoded) : Unidentified(ArtifactComponent(Decoded[i]))})

(***************************************************************************)
(* Harness for normalizePURL and the identity of two components that       *)
(* differ in their PURL only.                                              *)
(***************************************************************************)
PURLChars == {"p", "1", "@", "?", "#"}

PURLStrings == SeqsUpTo(PURLChars, MaxPURLLen)

OfPURL(p) == [Component EXCEPT !.PURL = p, !.Name = <<"a">>]

InitPURL ==
    /\ pc = "call"
    /\ arg \in [p : PURLStrings, q : PURLStrings]
    /\ ret = <<>>
    /\ MainIdle

CallNormalizePURL ==
    /\ pc = "call"
    /\ ret' = [p |-> normalizePURL(arg.p), q |-> normalizePURL(arg.q)]
    /\ pc' = "normalized"
    /\ UNCHANGED <<arg, mainVars>>

CallComputeIDs ==
    /\ pc = "normalized"
    /\ ret' = [p |-> ret.p, q |-> ret.q,
               idp |-> computeComponentID(OfPURL(arg.p)),
               idq |-> computeComponentID(OfPURL(arg.q))]
    /\ pc' = "returned"
    /\ UNCHANGED <<arg, mainVars>>

NextPURL == CallNormalizePURL \/ CallComputeIDs

SpecPURL == InitPURL /\ [][NextPURL]_vars

(***************************************************************************)
(* C18.  normalizePURL(p) is p cut before its first '#' or '?', whichever  *)
(* comes first, and then cut before the last '@' that is left, if any; a p *)
(* without '#', '?' and '@' comes back unchanged; two PURLs that differ    *)
(* only in the version after the last '@', in the qualifiers or in the     *)
(* subpath give the same identity.                                         *)
(***************************************************************************)
Positions(s, chars) == {i \in 1..Len(s) : s[i] \in chars}

Least(S) == CHOOSE i \in S : \A j \in S : i <= j
Greatest(S) == CHOOSE i \in S : \A j \in S : j <= i

\* p before its qualifiers and subpath
BeforeTail(p) ==
    IF Positions(p, {"#", "?"}) = {} THEN p
    ELSE SubSeq(p, 1, Least(Positions(p, {"#", "?"})) - 1)

\* s before its version
BeforeVersion(s) ==
    IF Positions(s, {"@"}) = {} THEN s
    ELSE SubSeq(s, 1, Greatest(Positions(s, {"@"})) - 1)

\* p is x, or x followed by qualifiers or a subpath
TailAdded(p, x) ==
    /\ Len(p) >= Len(x) /\ SubSeq(p, 1, Len(x)) = x
    /\ (Len(p) > Len(x) => p[Len(x) + 1] \in {"#", "?"})

\* p is b, '@', a version, and then nothing, qualifiers or a subpath
VersionOf(p, b) ==
    \E n \in (Len(b) + 1)..Len(p) :
        /\ SubSeq(p, 1, Len(b)) = b /\ p[Len(b) + 1] = "@"
        /\ \A k \in (Len(b) + 2)..n : p[k] \notin {"@", "#", "?"}
        /\ (n < Len(p) => p[n + 1] \in {"#", "?"})

Prefixes(p) == {SubSeq(p, 1, n) : n \in 0..Len(p)}

\* p and q differ in nothing but version, qualifiers and subpath
SameButVersionAndTail(p, q) ==
    \/ \E x \in Prefixes(p) :
          /\ Positions(x, {"#", "?"}) = {}
          /\ TailAdded(p, x) /\ TailAdded(q, x)
    \/ \E b \in Prefixes(p) :
          /\ Positions(b, {"#", "?"}) = {}
          /\ VersionOf(p, b) /\ VersionOf(q, b)

C18_WitnessTail ==
    /\ pc = "returned"
    /\ arg.p = <<"p", "?", "@">> /\ arg.q = <<"p", "#", "1">>
    /\ SameButVersionAndTail(arg.p, arg.q)
    /\ ret.p = <<"p">> /\ ret.idp = ret.idq

\* a scoped name keeps its first '@' when it has a version and loses its
\* scope when it has none
C18_WitnessScoped ==
    /\ pc = "returned"
    /\ arg.p = <<"@", "p", "@">> /\ ret.p = <<"@", "p">>
    /\ arg.q = <<"@", "p">> /\ ret.q = EmptyStr
    /\ ~SameButVersionAndTail(arg.p, arg.q)

(***************************************************************************)
(* C19.  When reading an input file fails: in strict mode the run stops    *)
(* with exit status 1 before any diff or statistics are computed and no    *)
(* warning is recorded; in tolerant mode exactly one warning naming that   *)
(* file is appended, the file contributes an empty component list, and the *)
(* run goes on to the diff and the policy evaluation.                      *)
(***************************************************************************)
\* the files read so far, in the order main reads them
FilesRead ==
    IF pc = "parse1" THEN <<>>
    ELSE IF pc = "parse2" \/ (pc = "failed" /\ strict /\ ~file1.ok) THEN <<1>>
    ELSE <<1, 2>>

FileNo(n) == IF n = 1 THEN file1 ELSE file2
CompsNo(n) == IF n = 1 THEN comps1 ELSE comps2

Unreadable == SelectSeq(FilesRead, LAMBDA n : ~FileNo(n).ok)

StoppedAtRead ==
    /\ pc = "failed" /\ exitCode = 1
    /\ result = EmptyResult /\ violations = <<>> /\ stdout = Nil
    /\ warnings = <<>>

ReadFailureHandled ==
    IF strict
    THEN Unreadable # <<>> => StoppedAtRead
    ELSE /\ Len(warnings) = Len(Unreadable)
         /\ \A i \in 1..Len(warnings) : warnings[i].File = Unreadable[i]
         /\ \A i \in 1..Len(Unreadable) : CompsNo(Unreadable[i]) = <<>>

\* in tolerant mode a run fails at the policy file or at the output, never
\* at an input file, and the stages follow each other
TolerantGoesOn ==
    ~strict =>
        /\ (pc' = "failed" => pc \in {"policy", "report"})
        /\ (pc = "parse1" => pc' = "parse2")
        /\ (pc = "parse2" => pc' = "normalize")
        /\ (pc = "normalize" => pc' = "diff")
        /\ (pc = "diff" => pc' = "policy")

C19_ReadFailure == [](ReadFailureHandled) /\ [][TolerantGoesOn]_vars

\* tolerant, the first file unreadable: one warning for it, the components
\* of the second file all added, a policy evaluated on that diff
C19_Witness ==
    /\ ~strict /\ ~file1.ok /\ file2.ok
    /\ pc = "exited"
    /\ warnings = <<[File |-> 1, Field |-> EmptyStr]>>
    /\ Len(file2.comps) = 2 /\ Len(result.Added) = 2
    /\ pol # Nil /\ violations # <<>>

\* strict, the second file unreadable after the first was read
C19_WitnessStrict ==
    /\ strict /\ file1.ok /\ ~file2.ok
    /\ comps1 # <<>>
    /\ StoppedAtRead

\* tolerant, both files unreadable: two warnings and an empty diff
C19_WitnessBoth ==
    /\ ~strict /\ ~file1.ok /\ ~file2.ok
    /\ pc = "exited" /\ exitCode = 0
    /\ Len(warnings) = 2 /\ warnings[1].File = 1 /\ warnings[2].File = 2

(***************************************************************************)
(* bfsReachable one loop iteration at a time: arg is the graph and the     *)
(* start node, ret the queue and the visited set, and on return the set    *)
(* handed back.                                                            *)
(***************************************************************************)
StartNodes == Nodes \cup {<<"d">>}

InitBFS ==
    /\ pc = "loop"
    /\ arg \in [graph : Graphs, start : StartNodes]
    /\ ret = [queue |-> <<arg.start>>, visited |-> {}]
    /\ MainIdle

\* the head of the queue was visited already: continue
BfsSkip ==
    /\ pc = "loop"
    /\ Len(ret.queue) > 0
    /\ ret.queue[1] \in ret.visited
    /\ ret' = [ret EXCEPT !.queue = Tail(ret.queue)]
    /\ UNCHANGED <<pc, arg, mainVars>>

\* the head of the queue is marked and its unvisited dependencies queued
BfsVisit ==
    /\ pc = "loop"
    /\ Len(ret.queue) > 0
    /\ ret.queue[1] \notin ret.visited
    /\ LET current == ret.queue[1]
           now == ret.visited \cup {current}
       IN ret' = [queue |-> Tail(ret.queue)
                              \o SelectSeq(Deps(arg.graph, current),
                                           LAMBDA dep : dep \notin now),
                  visited |-> now]
    /\ UNCHANGED <<pc, arg, mainVars>>

\* the start node is left in the set handed back
BfsReturn_KeepStart ==
    /\ pc = "loop"
    /\ Len(ret.queue) = 0
    /\ ret' = ret
    /\ pc' = "returned"
    /\ UNCHANGED <<arg, mainVars>>

\* the queue is empty: delete(visited, start) and return
BfsReturn ==
    /\ pc = "loop"
    /\ Len(ret.queue) = 0
    /\ ret' = [ret EXCEPT !.visited = ret.visited \ {arg.start}]
    /\ pc' = "returned"
    /\ UNCHANGED <<arg, mainVars>>

NextBFS == BfsSkip \/ BfsVisit \/ BfsReturn

\* the loop is sequential code: an iteration that can run does run
SpecBFS == InitBFS /\ [][NextBFS]_vars /\ WF_vars(NextBFS)

(***************************************************************************)
(* C20.  bfsReachable terminates on every finite graph, one with a cycle,  *)
(* a node that depends on itself or an edge to a node the graph does not   *)
(* hold included, and for every start node s it returns exactly the nodes  *)
(* that a path of at least one edge from s ends on, s itself taken out     *)
(* even when s lies on a cycle.                                            *)
(***************************************************************************)
\* there are edges s = n0 -> n1 -> ... -> t, at least one
HasPath(graph, s, t) ==
    \E path \in SeqsUpTo(AllNodes(graph), Cardinality(AllNodes(graph))) :
        /\ Len(path) >= 1
        /\ path[1] \in Range(Deps(graph, s))
        /\ path[Len(path)] = t
        /\ \A i \in 1..(Len(path) - 1) : path[i + 1] \in Range(Deps(graph, path[i]))

ReturnedExact ==
    pc = "returned" =>
        /\ ret.visited = {t \in AllNodes(arg.graph) \ {arg.start} :
                            HasPath(arg.graph, arg.start, t)}
        /\ ret.visited = bfsReachable(arg.graph, arg.start)

C20_BfsReachable == [](ReturnedExact) /\ <>(pc = "returned")

\* the start node lies on a cycle a -> e -> l -> a
C20_Witness ==
    /\ pc = "returned"
    /\ arg.start = <<"a">>
    /\ HasPath(arg.graph, arg.start, arg.start)
    /\ ret.visited = {<<"e">>, <<"l">>}

\* a node that depends on itself and on a node the graph does not hold
C20_WitnessDangling ==
    /\ pc = "returned"
    /\ arg.start = <<"a">>
    /\ DOMAIN arg.graph = {<<"a">>}
    /\ arg.graph[<<"a">>] = <<(<<"a">>), (<<"b">>)>>
    /\ ret.visited = {<<"b">>}

\* a start node the graph does not hold
C20_WitnessAbsent ==
    /\ pc = "returned"
    /\ arg.start \notin AllNodes(arg.graph)
    /\ arg.graph # EmptyGraph
    /\ ret.visited = {}

(***************************************************************************)
(* bfsWithPath one loop iteration at a time, for distinct start and target:*)
(* arg is the graph, the start and the target, ret the queue of [id, path] *)
(* and the visited set, and on return the path and the depth.              *)
(***************************************************************************)
\* the graph of the unit test and one whose first branch is the longer one
DiamondGraphs ==
    LET a == <<"a">>  b == <<"b">>  c == <<"c">>  d == <<"d">> IN
    { (a :> <<b, c>>) @@ (b :> <<d>>) @@ (c :> <<d>>) @@ (d :> <<>>),
      (a :> <<b, c>>) @@ (b :> <<c>>) @@ (c :> <<d>>) @@ (d :> <<>>) }

PathGraphs == Graphs \cup DiamondGraphs

InitPath ==
    /\ pc = "loop"
    /\ arg \in {x \in [graph : PathGraphs, start : StartNodes, target : StartNodes] :
                   x.start # x.target}
    /\ ret = [queue |-> <<[id |-> arg.start, path |-> <<arg.start>>]>>, visited |-> {}]
    /\ MainIdle

\* the head of the queue was visited already: continue
PathSkip ==
    /\ pc = "loop"
    /\ Len(ret.queue) > 0
    /\ ret.queue[1].id \in ret.visited
    /\ ret' = [ret EXCEPT !.queue = Tail(ret.queue)]
    /\ UNCHANGED <<pc, arg, mainVars>>

\* the unvisited dependencies of the head pushed in front of the queue
PathVisit_DepthFirst ==
    /\ pc = "loop"
    /\ Len(ret.queue) > 0
    /\ ret.queue[1].id \notin ret.visited
    /\ arg.target \notin Range(Deps(arg.graph, ret.queue[1].id))
    /\ LET current == ret.queue[1]
           now == ret.visited \cup {current.id}
           fresh == SelectSeq(Deps(arg.graph, current.id), LAMBDA dep : dep \notin now)
       IN ret' = [queue |-> [i \in 1..Len(fresh) |->
                                [id |-> fresh[i], path |-> Append(current.path, fresh[i])]]
                            \o Tail(ret.queue),
                  visited |-> now]
    /\ UNCHANGED <<pc, arg, mainVars>>

\* the head is marked; none of its dependencies is the target; the
\* unvisited ones are queued with their paths
PathVisit ==
    /\ pc = "loop"
    /\ Len(ret.queue) > 0
    /\ ret.queue[1].id \notin ret.visited
    /\ arg.target \notin Range(Deps(arg.graph, ret.queue[1].id))
    /\ LET current == ret.queue[1]
           now == ret.visited \cup {current.id}
           fresh == SelectSeq(Deps(arg.graph, current.id), LAMBDA dep : dep \notin now)
       IN ret' = [queue |-> Tail(ret.queue)
                              \o [i \in 1..Len(fresh) |->
                                    [id |-> fresh[i], path |-> Append(current.path, fresh[i])]],
                  visited |-> now]
    /\ UNCHANGED <<pc, arg, mainVars>>

\* one of the head's dependencies is the target: return newPath, len - 1
PathFound ==
    /\ pc = "loop"
    /\ Len(ret.queue) > 0
    /\ ret.queue[1].id \notin ret.visited
    /\ arg.target \in Range(Deps(arg.graph, ret.queue[1].id))
    /\ LET newPath == Append(ret.queue[1].path, arg.target)
       IN ret' = [path |-> newPath, depth |-> Len(newPath) - 1]
    /\ pc' = "returned"
    /\ UNCHANGED <<arg, mainVars>>

\* the queue is empty: return nil, -1
PathExhausted ==
    /\ pc = "loop"
    /\ Len(ret.queue) = 0
    /\ ret' = NoPath
    /\ pc' = "returned"
    /\ UNCHANGED <<arg, mainVars>>

NextPath == PathSkip \/ PathVisit \/ PathFound \/ PathExhausted

\* the loop is sequential code: an iteration that can run does run
SpecPath == InitPath /\ [][NextPath]_vars /\ WF_vars(NextPath)

(***************************************************************************)
(* C21.  For distinct nodes s and t: when t is in bfsReachable(graph, s),  *)
(* bfsWithPath returns a path that starts with s, ends with t, follows     *)
(* edges of the graph and is as short as any such path, and the depth is   *)
(* the length of the path minus 1; when t is not reachable it returns an   *)
(* empty path and depth -1.  bfsWithPath terminates on cyclic graphs.      *)
(***************************************************************************)
IsPath(graph, path, s, t) ==
    /\ Len(path) >= 2
    /\ path[1] = s /\ path[Len(path)] = t
    /\ \A i \in 1..(Len(path) - 1) : path[i + 1] \in Range(Deps(graph, path[i]))

\* the paths from s to t that visit no more nodes than there are
PathsFromTo(graph, s, t) ==
    LET all == AllNodes(graph) \cup {s}
    IN {path \in SeqsUpTo(all, Cardinality(all) + 1) : IsPath(graph, path, s, t)}

PathReturned ==
    pc = "returned" =>
        /\ ret = bfsWithPath(arg.graph, arg.start, arg.target)
        /\ IF arg.target \in bfsReachable(arg.graph, arg.start)
           THEN /\ IsPath(arg.graph, ret.path, arg.start, arg.target)
                /\ \A other \in PathsFromTo(arg.graph, arg.start, arg.target) :
                      Len(ret.path) <= Len(other)
                /\ ret.depth = Len(ret.path) - 1
           ELSE ret.path = <<>> /\ ret.depth = -1

C21_BfsWithPath == [](PathReturned) /\ <>(pc = "returned")

\* two branches to the target, the first listed being the longer one
C21_Witness ==
    /\ pc = "returned"
    /\ Deps(arg.graph, <<"a">>) = <<(<<"b">>), (<<"c">>)>>
    /\ <<(<<"a">>), (<<"b">>), (<<"c">>), (<<"d">>)>>
          \in PathsFromTo(arg.graph, <<"a">>, <<"d">>)
    /\ arg.start = <<"a">> /\ arg.target = <<"d">>
    /\ ret.path = <<(<<"a">>), (<<"c">>), (<<"d">>)>> /\ ret.depth = 2

\* a cycle through the start and a target outside it
C21_WitnessCycle ==
    /\ pc = "returned"
    /\ HasPath(arg.graph, arg.start, arg.start)
    /\ arg.target \notin bfsReachable(arg.graph, arg.start)
    /\ arg.target \in DOMAIN arg.graph
    /\ ret = NoPath

(***************************************************************************)
(* Harness for FindRoots and diffReachability: the roots of the after      *)
(* graph are computed, then the reachability diff is run with the roots    *)
(* it walks, which are every key in map order when FindRoots finds none.   *)
(***************************************************************************)
\* graphs without a root whose keys reach one target at different depths
CycleGraphs ==
    LET a == <<"a">>  b == <<"b">>  c == <<"c">>  d == <<"d">> IN
    { (a :> <<b>>) @@ (b :> <<c>>) @@ (c :> <<d>>) @@ (d :> <<a>>),
      (a :> <<b>>) @@ (b :> <<a, c>>) @@ (c :> <<d>>) }

RootGraphs == Graphs \cup CycleGraphs

InitRoots ==
    /\ pc = "call"
    /\ arg \in [before : RootGraphs, after : RootGraphs]
    /\ ret = <<>>
    /\ MainIdle

CallFindRoots ==
    /\ pc = "call"
    /\ ret' = [roots |-> FindRoots(arg.after)]
    /\ pc' = "roots"
    /\ UNCHANGED <<arg, mainVars>>

CallDiffReachability ==
    /\ pc = "roots"
    /\ \E afterRoots \in RootOrders(arg.after), beforeRoots \in RootOrders(arg.before) :
          LET reach == diffReachability(arg.before, arg.after,
                                        computeAllReachable(arg.before),
                                        computeAllReachable(arg.after),
                                        afterRoots, beforeRoots)
          IN ret' = [roots |-> ret.roots, walked |-> afterRoots,
                     newDeps |-> reach.newDeps, lostDeps |-> reach.lostDeps]
    /\ pc' = "returned"
    /\ UNCHANGED <<arg, mainVars>>

NextRoots == CallFindRoots \/ CallDiffReachability

SpecRoots == InitRoots /\ [][NextRoots]_vars

(***************************************************************************)
(* C22.  FindRoots returns, in ascending order, exactly the keys of the    *)
(* graph that occur in no adjacency list, so that a node with an edge to   *)
(* itself is no root; when there is no such key the reachability diff      *)
(* walks every key of the graph as a root, and a graph made of cycles      *)
(* only still yields the new transitive dependencies of its nodes.         *)
(***************************************************************************)
InNoList(graph) ==
    {n \in DOMAIN graph : \A k \in DOMAIN graph : \A i \in 1..Len(graph[k]) : graph[k][i] # n}

Ascending(strs) == \A i \in 1..(Len(strs) - 1) : StrLess(strs[i], strs[i + 1])

\* what is new and more than one edge away from some key of the after graph
NewFromSomeKey ==
    { t \in AllNodes(arg.after) :
        \E r \in DOMAIN arg.after :
            /\ t \in ReachableFrom(arg.after, r)
            /\ t \notin ReachableFrom(arg.before, r)
            /\ Distance(arg.after, r, t) > 1 }

C22_Roots ==
    /\ pc \in {"roots", "returned"} =>
          /\ Ascending(ret.roots)
          /\ Range(ret.roots) = InNoList(arg.after)
    /\ pc = "returned" =>
          IF InNoList(arg.after) # {}
          THEN ret.walked = ret.roots
          ELSE /\ Range(ret.walked) = DOMAIN arg.after
               /\ Len(ret.walked) = Cardinality(DOMAIN arg.after)
               /\ {ret.newDeps[i].Target : i \in 1..Len(ret.newDeps)} = NewFromSomeKey

\* a cycle of three keys against an empty graph: no root, and each key is
\* two edges from another one
C22_Witness ==
    /\ pc = "returned"
    /\ arg.before = EmptyGraph
    /\ Cardinality(DOMAIN arg.after) = 3
    /\ ret.roots = <<>>
    /\ Len(ret.walked) = 3
    /\ {ret.newDeps[i].Target : i \in 1..Len(ret.newDeps)} = DOMAIN arg.after

\* a key with an edge to itself next to two roots
C22_WitnessSelfEdge ==
    /\ pc = "returned"
    /\ DOMAIN arg.after = {<<"a">>, <<"b">>, <<"c">>}
    /\ <<"b">> \in Range(arg.after[<<"b">>])
    /\ ret.roots = <<(<<"a">>), (<<"c">>)>>

(***************************************************************************)
(* Harness for DetectCollisions and DetectDuplicates on one component      *)
(* list: lists of up to MaxComps components over two identities, two       *)
(* names, two versions and hash maps of one or two algorithms, and lists   *)
(* of three components of one identity, name and version.                  *)
(***************************************************************************)
AlgoS == <<"s">>
AlgoT == <<"t">>

GroupHashMaps ==
    { NoHashes,
      (AlgoS :> <<"x">>), (AlgoS :> <<"a">>),
      (AlgoS :> <<"x">>) @@ (AlgoT :> <<"x">>),
      (AlgoS :> <<"a">>) @@ (AlgoT :> <<"a">>) }

GroupElements ==
    { [Component EXCEPT !.ID = x.ID, !.Name = x.Name, !.Version = x.Version,
                        !.Hashes = x.Hashes] :
        x \in [ID : {<<"a">>, <<"b">>}, Name : {<<"n">>, <<"m">>},
               Version : {<<"1">>, <<"2">>}, Hashes : GroupHashMaps] }

TripleHashMaps == GroupHashMaps \cup {(AlgoS :> <<"b">>), (AlgoT :> <<"b">>)}

\* three members of one group, then nothing or a component of another one
TripleLists ==
    { [i \in 1..3 |-> [Component EXCEPT !.ID = <<"b">>, !.Name = <<"n">>,
                                        !.Version = <<"1">>, !.Hashes = h[i]]] \o tl :
        h \in [1..3 -> TripleHashMaps],
        tl \in {<<>>, <<[Component EXCEPT !.ID = <<"a">>, !.Name = <<"n">>]>>} }

\* four components over two identities and two versions
QuadLists ==
    [1..4 -> {Pkg(id, v, NoHashes, <<>>) : id \in {<<"a">>, <<"b">>},
                                           v \in {<<"1">>, <<"2">>}}]

GroupInputs == SeqsUpTo(GroupElements, MaxComps) \cup TripleLists \cup QuadLists

InitGroups ==
    /\ pc = "call"
    /\ arg \in GroupInputs
    /\ ret = <<>>
    /\ MainIdle

CallDetectCollisions ==
    /\ pc = "call"
    /\ \E hashOrder \in HashOrders(arg) : ret' = DetectCollisions(arg, hashOrder)
    /\ pc' = "collisions"
    /\ UNCHANGED <<arg, mainVars>>

CallDetectDuplicates ==
    /\ pc = "call"
    /\ ret' = DetectDuplicates(arg)
    /\ pc' = "duplicates"
    /\ UNCHANGED <<arg, mainVars>>

NextGroups == CallDetectCollisions \/ CallDetectDuplicates

SpecGroups == InitGroups /\ [][NextGroups]_vars

(***************************************************************************)
(* C23.  DetectCollisions reports an identity with reason name_mismatch    *)
(* iff its group has at least 2 members and more than one distinct name;   *)
(* with reason hash_mismatch iff the group has at least 2 members, all of  *)
(* one name, and two members of the same version carry the same hash       *)
(* algorithm with different values, whatever the order of the members; no  *)
(* identity is reported with both reasons.                                 *)
(***************************************************************************)
Members(id) == {i \in 1..Len(arg) : arg[i].ID = id}

NamesOf(id) == {arg[i].Name : i \in Members(id)}

HashesDisagree(id) ==
    \E i \in Members(id), j \in Members(id) :
        /\ i # j
        /\ arg[i].Version = arg[j].Version
        /\ \E algo \in DOMAIN arg[i].Hashes \cap DOMAIN arg[j].Hashes :
              arg[i].Hashes[algo] # arg[j].Hashes[algo]

Reported(id, reason) ==
    \E k \in 1..Len(ret) : ret[k].ID = id /\ ret[k].Reason = reason

C23_CollisionReasons ==
    pc = "collisions" =>
        /\ \A k \in 1..Len(ret) :
              /\ Members(ret[k].ID) # {}
              /\ ret[k].Reason \in {"name_mismatch", "hash_mismatch"}
        /\ \A id \in {arg[i].ID : i \in 1..Len(arg)} :
              /\ Reported(id, "name_mismatch")
                    <=> (Cardinality(Members(id)) >= 2 /\ Cardinality(NamesOf(id)) > 1)
              /\ Reported(id, "hash_mismatch")
                    <=> (/\ Cardinality(Members(id)) >= 2
                         /\ Cardinality(NamesOf(id)) = 1
                         /\ HashesDisagree(id))
              /\ ~(Reported(id, "name_mismatch") /\ Reported(id, "hash_mismatch"))

\* a member without hashes between two that disagree on the second
\* algorithm only
C23_Witness ==
    /\ pc = "collisions"
    /\ Len(arg) = 3
    /\ arg[1].Hashes = (AlgoS :> <<"x">>) @@ (AlgoT :> <<"x">>)
    /\ arg[2].Hashes = NoHashes
    /\ arg[3].Hashes = (AlgoT :> <<"b">>)
    /\ Reported(<<"b">>, "hash_mismatch")

\* two names and two hashes under one identity: the name decides
C23_WitnessName ==
    /\ pc = "collisions"
    /\ Len(arg) = 2
    /\ arg[1].ID = arg[2].ID /\ arg[1].Name # arg[2].Name
    /\ arg[1].Version = arg[2].Version
    /\ HashesDisagree(arg[1].ID)
    /\ Len(ret) = 1 /\ ret[1].Reason = "name_mismatch"

\* different hashes at different versions are no collision
C23_WitnessVersions ==
    /\ pc = "collisions"
    /\ Len(arg) = 2
    /\ arg[1].ID = arg[2].ID /\ arg[1].Name = arg[2].Name
    /\ arg[1].Version # arg[2].Version
    /\ arg[1].Hashes = (AlgoS :> <<"x">>) /\ arg[2].Hashes = (AlgoS :> <<"a">>)
    /\ ret = <<>>

(***************************************************************************)
(* C24.  DetectCollisions returns at most one Collision for each pair      *)
(* (identity, reason), also when three or more members of a group share a  *)
(* version and an algorithm with pairwise different hash values.           *)
(***************************************************************************)
C24_OncePerReason ==
    pc = "collisions" =>
        \A k \in 1..Len(ret), l \in 1..Len(ret) :
            (ret[k].ID = ret[l].ID /\ ret[k].Reason = ret[l].Reason) => k = l

(***************************************************************************)
(* Harness for the duplicates report of DiffComponents: each input holds,  *)
(* for each of two identities, nothing, one component, or two components   *)
(* that agree, differ in version, in name or in hash; either identity may  *)
(* come first.                                                             *)
(***************************************************************************)
MembersOf(id) ==
    LET one == Pkg(id, <<"1">>, Sha(<<"a">>), <<>>) IN
    { <<>>,
      <<one>>,
      <<one, one>>,
      <<one, [one EXCEPT !.Version = <<"2">>]>>,
      <<one, [one EXCEPT !.Name = <<"n">>]>>,
      <<one, [one EXCEPT !.Hashes = Sha(<<"b">>)]>> }

GroupedLists ==
    UNION { {x \o y, y \o x} : x \in MembersOf(<<"a">>), y \in MembersOf(<<"b">>) }

InitReport ==
    /\ pc = "call"
    /\ arg \in [before : GroupedLists, after : GroupedLists]
    /\ ret = EmptyResult
    /\ MainIdle

CallDiffGrouped ==
    /\ pc = "call"
    /\ \E orders \in DiffOrders(arg.before, arg.after) :
          ret' = DiffComponents(arg.before, arg.after, orders)
    /\ pc' = "returned"
    /\ UNCHANGED <<arg, mainVars>>

NextReport == CallDiffGrouped

SpecReport == InitReport /\ [][NextReport]_vars

(***************************************************************************)
(* C25.  In every DiffResult the lists under duplicates are sorted by      *)
(* identity ascending: duplicates.before, duplicates.after,                *)
(* version_diff.new_duplicates, version_diff.resolved_duplicates and       *)
(* duplicates.collisions, the last being the union of the collisions of    *)
(* the before and after lists with one entry per (identity, reason).       *)
(***************************************************************************)
AscendingByID(list) ==
    \A i \in 1..(Len(list) - 1) :
        list[i].ID = list[i + 1].ID \/ StrLess(list[i].ID, list[i + 1].ID)

ReasonsIn(comps) ==
    LET ids == {comps[i].ID : i \in 1..Len(comps)}
        of(id) == SelectSeq(comps, LAMBDA c : c.ID = id)
        names(id) == {of(id)[i].Name : i \in 1..Len(of(id))}
        disagree(id) ==
            \E i \in 1..Len(of(id)), j \in 1..Len(of(id)) :
                /\ of(id)[i].Version = of(id)[j].Version
                /\ \E algo \in DOMAIN of(id)[i].Hashes \cap DOMAIN of(id)[j].Hashes :
                      of(id)[i].Hashes[algo] # of(id)[j].Hashes[algo]
    IN {<<id, "name_mismatch">> : id \in {x \in ids : Cardinality(names(x)) > 1}}
       \cup {<<id, "hash_mismatch">> :
               id \in {x \in ids : Cardinality(names(x)) = 1 /\ disagree(x)}}

C25_DuplicatesSorted ==
    (pc = "returned" /\ ret.Duplicates # Nil) =>
        LET d == ret.Duplicates[1] IN
        /\ AscendingByID(d.Before)
        /\ AscendingByID(d.After)
        /\ (d.VersionDiff # Nil =>
              /\ AscendingByID(d.VersionDiff[1].NewDuplicates)
              /\ AscendingByID(d.VersionDiff[1].ResolvedDuplicates))
        /\ AscendingByID(d.Collisions)
        /\ {<<d.Collisions[i].ID, d.Collisions[i].Reason>> : i \in 1..Len(d.Collisions)}
              = ReasonsIn(arg.before) \cup ReasonsIn(arg.after)
        /\ Len(d.Collisions)
              = Cardinality(ReasonsIn(arg.before) \cup ReasonsIn(arg.after))

(***************************************************************************)
(* C26.  DetectDuplicates returns exactly one group for each identity      *)
(* carried by at least 2 components, also when all of them have the same   *)
(* version, and none for an identity carried by one component; a group     *)
(* holds all components of its identity, its versions are the distinct     *)
(* versions in ascending order without repetition, and the groups are in   *)
(* ascending order of identity.                                            *)
(***************************************************************************)
CarriedTwice == {id \in {arg[i].ID : i \in 1..Len(arg)} : Cardinality(Members(id)) >= 2}

C26_WitnessSingle ==
    /\ pc = "duplicates"
    /\ Len(arg) = 4
    /\ Cardinality(Members(<<"a">>)) = 1
    /\ Len(ret) = 1 /\ Len(ret[1].Components) = 3

(***************************************************************************)
(* C27.  No integrity drift is missed by the differ: for every identity    *)
(* of both inputs for which ClassifyDrift of the two representatives       *)
(* returns integrity (versions equal and hash maps different, a hash       *)
(* algorithm that only one side has included), DiffComponents lists the    *)
(* identity in changed with drift type integrity and counts it in          *)
(* drift_summary.integrity_drift.                                          *)
(***************************************************************************)
IntegrityIDs ==
    { id \in GroupIDs(arg.before) \cap GroupIDs(arg.after) :
        ClassifyDrift(FirstByID(arg.before, id), FirstByID(arg.after, id)).Type
            = "integrity" }

C27_NoIntegrityMissed ==
    (pc = "returned" /\ IntegrityIDs # {}) =>
        /\ \A id \in IntegrityIDs :
              \E k \in 1..Len(ret.Changed) :
                  /\ ret.Changed[k].ID = id
                  /\ ret.Changed[k].Drift # Nil
                  /\ ret.Changed[k].Drift[1].Type = "integrity"
        /\ ret.DriftSummary # Nil
        /\ ret.DriftSummary[1].IntegrityDrift = Cardinality(IntegrityIDs)

(***************************************************************************)
(* C28.  DiffDependencyGraphs is deterministic: for fixed before and after *)
(* graphs the targets, via paths and depths of transitive_new and          *)
(* transitive_lost are the same whatever order the keys of the graph, the  *)
(* roots and the reachable sets are iterated in, also when a graph has no  *)
(* root and every key is used as a root.                                   *)
(***************************************************************************)
\* the roots walked when the keys of a rootless graph come in ascending order
RootsInKeyOrder(graph) ==
    IF InNoList(graph) # {} THEN SortStrings(SetToSeq(InNoList(graph)))
    ELSE SortStrings(SetToSeq(DOMAIN graph))

InKeyOrder ==
    diffReachability(arg.before, arg.after,
                     computeAllReachable(arg.before), computeAllReachable(arg.after),
                     RootsInKeyOrder(arg.after), RootsInKeyOrder(arg.before))

C28_Deterministic ==
    pc = "returned" =>
        /\ ret.newDeps = InKeyOrder.newDeps
        /\ ret.lostDeps = InKeyOrder.lostDeps

(***************************************************************************)
(* Harness for the representative of an identity: the dependency graph of  *)
(* the after list is built, then the lists are diffed; components of one   *)
(* identity may declare different dependencies.                            *)
(***************************************************************************)
DeclaringElements ==
    { Node(id, deps) : id \in {<<"a">>, <<"b">>}, deps \in {<<>>, <<(<<"e">>)>>} }

DeclaringLists == SeqsUpTo(DeclaringElements, MaxComps)

InitRepresentative ==
    /\ pc = "call"
    /\ arg \in [before : DeclaringLists, after : DeclaringLists]
    /\ ret = <<>>
    /\ MainIdle

CallBuildDependencyGraph ==
    /\ pc = "call"
    /\ ret' = [graph |-> BuildDependencyGraph(arg.after)]
    /\ pc' = "graph"
    /\ UNCHANGED <<arg, mainVars>>

CallDiffDeclaring ==
    /\ pc = "graph"
    /\ \E orders \in DiffOrders(arg.before, arg.after) :
          ret' = [graph |-> ret.graph,
                  diff |-> DiffComponents(arg.before, arg.after, orders)]
    /\ pc' = "returned"
    /\ UNCHANGED <<arg, mainVars>>

NextRepresentative == CallBuildDependencyGraph \/ CallDiffDeclaring

SpecRepresentative == InitRepresentative /\ [][NextRepresentative]_vars

(***************************************************************************)
(* C29.  When several components of one list share an identity, the        *)
(* dependency graph built for the dependency diff maps that identity to    *)
(* the dependency list of the component the differ uses as the             *)
(* representative of the identity in added, removed and changed: the       *)
(* first component with that identity in input order.                      *)
(***************************************************************************)
FirstWith(list, id) ==
    list[CHOOSE i \in 1..Len(list) :
            list[i].ID = id /\ \A j \in 1..(i - 1) : list[j].ID # id]

C29_SameRepresentative ==
    /\ pc \in {"graph", "returned"} =>
          \A id \in {arg.after[i].ID : i \in 1..Len(arg.after)} :
              ret.graph[id] = FirstWith(arg.after, id).Dependencies
    /\ pc = "returned" =>
          \A k \in 1..Len(ret.diff.Added) :
              /\ ret.diff.Added[k] = FirstWith(arg.after, ret.diff.Added[k].ID)
              /\ ret.graph[ret.diff.Added[k].ID] = ret.diff.Added[k].Dependencies


\* C30: NormalizeComponent leaves alone a non-empty identity and the fields
\* hashes, dependencies, cpes, raw_json, language, found_by and type: in the
\* result each of them equals the input's.
C30_Frame ==
    pc \in {"once", "returned"} =>
        /\ (arg.ID # EmptyStr => ret.once.ID = arg.ID)
        /\ ret.once.Hashes = arg.Hashes
        /\ ret.once.Dependencies = arg.Dependencies
        /\ ret.once.CPEs = arg.CPEs
        /\ ret.once.RawJSON = arg.RawJSON
        /\ ret.once.Language = arg.Language
        /\ ret.once.FoundBy = arg.FoundBy
        /\ ret.once.Type = arg.Type

====
